------------------------------ MODULE Spec2Model ------------------------------
(***************************************************************************)
(* Model of the ledger transaction submission layer of the degree backend: *)
(*   - GatewayConnectionManager (per-user gateway cache, the default       *)
(*     connection, eviction and teardown),                                 *)
(*   - the degree and transcript services (propose / endorse / submit /    *)
(*     commit-wait flows and their error classification),                  *)
(*   - the DegreeContract chaincode and the ledger it writes,              *)
(*   - the database module (db.query), the user store, the wallet and      *)
(*     AuthService.enrollUser / deleteUser.                                *)
(***************************************************************************)
EXTENDS Integers, Sequences, FiniteSets, TLC

(***************************************************************************)
(* Bounds of the model.                                                    *)
(***************************************************************************)
MaxCallers == 2       \* concurrent connectWithUserIdentity callers
MaxChannels == 3      \* gRPC clients created over one run
MaxTime == 2          \* last value of the clock (Date.now())
MaxQueries == 2       \* concurrent db.query calls
MaxPools == 4         \* pools created before the last query starts
MaxEnrollers == 2     \* concurrent enrollUser calls
MaxVersion == 3       \* certificates issued to one user

Callers == 1..MaxCallers
Users == {"admin1", "S1", "ghost"}      \* usernames asked for
WalletUsers == {"admin1", "S1"}         \* usernames with an identity in the wallet

NoEntry == [gateway |-> 0, client |-> 0, lastUsed |-> 0]
\* No identity loaded: createIdentity/createSigner have made nothing yet.
NoCredentials == [user |-> "", cert |-> 0]
IdleCaller == [pc |-> "idle", username |-> "", chan |-> 0, result |-> 0,
               identity |-> NoCredentials]

VARIABLES
  userGateways,   \* this.userGateways: username -> {gateway, client, lastUsed}
  channels,       \* every gRPC client ever created, with the gateway on it
  conn,           \* position of each connectWithUserIdentity call
  manager,        \* the default connection: this.gateway, this.client, this.isConnected
  maint,          \* the manager call that has returned, its caller not yet run
  now,            \* Date.now()
  world,          \* the world state: key -> bytes and version
  priv,           \* the private collection: studentId -> bytes and version
  txs,            \* every proposal built, by transaction id
  ordering,       \* transactions handed to ordering and not yet in a block
  calls,          \* the service calls in progress
  pool,           \* db.js `pool`: the current Pool (0 = null) and how many were made
  queries,        \* position of each db.query call
  users,          \* table users, and the CA's count of certificates per enrollment id
  wallet,         \* table identities: username -> the certificate stored (0 = none)
  enrolls         \* position of each enrollUser call

connVars == <<userGateways, channels, conn, manager, maint>>
managerVars == <<manager, maint>>
ledgerVars == <<world, priv, txs, ordering, calls>>
storeVars == <<pool, queries, users, wallet, enrolls>>
vars == <<userGateways, channels, conn, manager, maint, now, world, priv, txs,
          ordering, calls, pool, queries, users, wallet, enrolls>>

-----------------------------------------------------------------------------
(***************************************************************************)
(* GatewayConnectionManager.connectWithUserIdentity.  The function runs    *)
(* in four segments separated by its awaits (getIdentity,                  *)
(* loadTlsRootCertificate, connectToGateway); other callbacks run between  *)
(* them.                                                                   *)
(***************************************************************************)

\* createGrpcClient: a new client, open, no gateway on it yet.
createGrpcClient(owner) ==
  [owner |-> owner, client |-> "open", gateway |-> "none",
   identity |-> NoCredentials]

\* The cache lookup that returns a cached gateway without touching its
\* lastUsed.
connectWithoutTouch(p, u) ==
  /\ conn[p].pc = "idle"
  /\ conn' = [conn EXCEPT ![p] =
                IF userGateways[u] # NoEntry
                  THEN [IdleCaller EXCEPT !.pc = "done", !.username = u,
                                          !.result = userGateways[u].gateway]
                  ELSE [IdleCaller EXCEPT !.pc = "getIdentity", !.username = u]]
  /\ UNCHANGED <<userGateways, channels, now>>

\* Lines 861-866: the cache lookup; a hit bumps lastUsed and returns the
\* cached gateway, a miss goes on to the wallet (first await).
connectWithUserIdentity(p, u) ==
  /\ conn[p].pc = "idle"
  /\ IF userGateways[u] # NoEntry
       THEN /\ userGateways' = [userGateways EXCEPT ![u].lastUsed = now]
            /\ conn' = [conn EXCEPT ![p] =
                          [IdleCaller EXCEPT !.pc = "done", !.username = u,
                                             !.result = userGateways[u].gateway]]
       ELSE /\ conn' = [conn EXCEPT ![p] =
                          [IdleCaller EXCEPT !.pc = "getIdentity", !.username = u]]
            /\ UNCHANGED userGateways
  /\ UNCHANGED <<channels, now>>

\* A wallet lookup keyed by a username kept in a field of the manager that
\* every request in flight writes, instead of by the call's own argument.
GotIdentityOfAny(p) ==
  /\ conn[p].pc = "getIdentity"
  /\ \E q \in Callers :
       LET u == conn[q].username IN
       /\ conn[q].pc # "idle"
       /\ conn' = IF wallet[u] # 0
                    THEN [conn EXCEPT ![p].pc = "loadTls",
                                      ![p].identity = [user |-> u, cert |-> wallet[u]]]
                    ELSE [conn EXCEPT ![p].pc = "failed"]
  /\ UNCHANGED <<userGateways, channels, now>>

\* Lines 873-884: the identity the wallet holds for the username came
\* back; none -> AUTH_IDENTITY_NOT_FOUND.  Otherwise the TLS certificate is
\* read (second await).
GotIdentity(p) ==
  LET u == conn[p].username IN
  /\ conn[p].pc = "getIdentity"
  /\ conn' = IF wallet[u] # 0
               THEN [conn EXCEPT ![p].pc = "loadTls",
                                 ![p].identity = [user |-> u, cert |-> wallet[u]]]
               ELSE [conn EXCEPT ![p].pc = "failed"]
  /\ UNCHANGED <<userGateways, channels, now>>

\* Lines 884-899: the certificate was read (or reading threw); identity and
\* signer are built, the gRPC client is created and connectToGateway is
\* awaited (third await).
LoadedTls(p) ==
  /\ conn[p].pc = "loadTls"
  /\ \/ /\ Len(channels) < MaxChannels
        /\ channels' = Append(channels, createGrpcClient(conn[p].username))
        /\ conn' = [conn EXCEPT ![p].pc = "connecting",
                                ![p].chan = Len(channels) + 1]
     \/ /\ conn' = [conn EXCEPT ![p].pc = "failed"]
        /\ UNCHANGED channels
  /\ UNCHANGED <<userGateways, now>>

\* Lines 899-910: the gateway is connected on the client with the identity
\* and signer built from what the wallet returned, and the entry is put in
\* the map under the username, replacing whatever is there.
GatewayConnected(p) ==
  /\ conn[p].pc = "connecting"
  /\ channels' = [channels EXCEPT ![conn[p].chan].gateway = "open",
                                  ![conn[p].chan].identity = conn[p].identity]
  /\ userGateways' = [userGateways EXCEPT ![conn[p].username] =
                        [gateway |-> conn[p].chan, client |-> conn[p].chan,
                         lastUsed |-> now]]
  /\ conn' = [conn EXCEPT ![p].pc = "done", ![p].result = conn[p].chan]
  /\ UNCHANGED now

\* The caller took the result (or the error); its slot is free again.
ConnReturn(p) ==
  /\ conn[p].pc \in {"done", "failed"}
  /\ conn' = [conn EXCEPT ![p] = IdleCaller]
  /\ UNCHANGED <<userGateways, channels, now>>

\* Date.now() advances.
Tick ==
  /\ now < MaxTime
  /\ now' = now + 1

\* No manager call is waiting for its caller.
NoMaint == [op |-> "none", maxAge |-> 0, result |-> 0, threw |-> FALSE,
            outcome |-> "none"]

\* No db.query and no enrollUser call is running; no pool exists yet.  The
\* users of the wallet have enrolled; "ghost" is registered and has not.
IdleQuery == [pc |-> "idle", retries |-> 0, currentPool |-> 0,
              error |-> [message |-> <<>>, code |-> ""], res |-> "none"]
IdleEnroll == [pc |-> "idle", username |-> "", secret |-> "", cert |-> 0,
               existing |-> FALSE, error |-> <<>>]
StoreInit ==
  /\ pool = [current |-> 0, made |-> 0]
  /\ queries = [q \in 1..MaxQueries |-> IdleQuery]
  /\ users = [u \in Users |->
                [exists |-> TRUE, enrollmentSecret |-> "secret-" \o u,
                 enrolled |-> u \in WalletUsers,
                 certs |-> IF u \in WalletUsers THEN 1 ELSE 0]]
  /\ wallet = [u \in Users |-> IF u \in WalletUsers THEN 1 ELSE 0]
  /\ enrolls = [e \in 1..MaxEnrollers |-> IdleEnroll]

\* The manager after getInstance() at startup: constructed and connected.
ConnInit ==
  /\ userGateways = [u \in Users |-> NoEntry]
  /\ channels = <<>>
  /\ conn = [p \in Callers |-> IdleCaller]
  /\ manager = [gateway |-> "open", client |-> "open", isConnected |-> TRUE]
  /\ maint = NoMaint
  /\ now = 0

-----------------------------------------------------------------------------
(***************************************************************************)
(* Values.  A JavaScript value is a string Str(s) or an object Obj(pairs), *)
(* the pairs <<key, value>> in property order.  JSON text (the bytes that  *)
(* are stored and sent) is Lit(s) for a string and Text(pairs) for an      *)
(* object, the pairs in the order they are written.                        *)
(***************************************************************************)
Str(s) == [t |-> "str", v |-> s]
Obj(pairs) == [t |-> "obj", v |-> pairs]
Lit(s) == [t |-> "lit", v |-> s]
Text(pairs) == [t |-> "text", v |-> pairs]
Nil == [t |-> "nil", v |-> <<>>]          \* no bytes / undefined

\* Integer-like property names, ascending: JavaScript lists these first.
IndexKeys == <<"1", "2">>
IsIndexKey(k) == \E i \in DOMAIN IndexKeys : IndexKeys[i] = k

KeysOf(pairs) == {pairs[i][1] : i \in DOMAIN pairs}
Has(o, k) == k \in KeysOf(o.v)
\* o[k]; Nil (undefined) for a property that is not there.
Get(o, k) ==
  IF Has(o, k)
    THEN LET i == CHOOSE j \in DOMAIN o.v :
                    /\ o.v[j][1] = k
                    /\ \A m \in DOMAIN o.v : o.v[m][1] = k => m <= j
         IN o.v[i][2]
    ELSE Nil
\* o[k] = x: an existing property keeps its place, a new one goes last.
Put(o, k, x) ==
  IF Has(o, k)
    THEN Obj([i \in DOMAIN o.v |-> IF o.v[i][1] = k THEN <<k, x>> ELSE o.v[i]])
    ELSE Obj(Append(o.v, <<k, x>>))

\* The property names of the object JSON.parse builds from `pairs`:
\* integer-like names ascending, then the others by first occurrence.
PropertyOrder(pairs) ==
  LET ints == SelectSeq(IndexKeys, LAMBDA k : k \in KeysOf(pairs))
      first(i) == \A j \in 1..(i - 1) : pairs[j][1] # pairs[i][1]
      idx == {i \in DOMAIN pairs : ~IsIndexKey(pairs[i][1]) /\ first(i)}
      RECURSIVE inOrder(_)
      inOrder(S) == IF S = {} THEN <<>>
                    ELSE LET m == CHOOSE i \in S : \A j \in S : i <= j
                         IN <<pairs[m][1]>> \o inOrder(S \ {m})
  IN ints \o inOrder(idx)

RECURSIVE JSONparse(_)
JSONparse(x) ==
  IF x.t = "lit" THEN Str(x.v)
  ELSE IF x.t = "text"
    THEN LET keys == PropertyOrder(x.v)
         IN Obj([i \in DOMAIN keys |->
                   <<keys[i], JSONparse(Get(Obj(x.v), keys[i]))>>])
    ELSE x

RECURSIVE JSONstringify(_)
JSONstringify(x) ==
  IF x.t = "str" THEN Lit(x.v)
  ELSE IF x.t = "obj"
    THEN Text([i \in DOMAIN x.v |-> <<x.v[i][1], JSONstringify(x.v[i][2])>>])
    ELSE x

\* crypto.createHash('sha256').update(bytes).digest('hex'): one digest per
\* byte string (no collisions).
sha256(bytes) == [t |-> "sha256", v |-> bytes]

\* Buffer.from(string) and buffer.toString('utf8') for plain strings.
BufferFrom(str) == [t |-> "raw", v |-> str.v]
BufferToString(buf) == Str(buf.v)

\* parseFloat, in tenths; -1 is NaN.
parseFloat(str) ==
  CASE str = "3.6" -> 36
    [] str = "4.5" -> 45
    [] OTHER -> -1

-----------------------------------------------------------------------------
(***************************************************************************)
(* The ledger: the world state and the private collection                  *)
(* 'TranscriptCollection', each key with its bytes and its version.        *)
(***************************************************************************)
Students == {"S1"}
TargetMSPs == {"Org2MSP"}
TranscriptKey(studentId) == "transcript-" \o studentId
GrantKey(studentId, targetMSP) == "grant-" \o studentId \o "-" \o targetMSP
DegreeIds == {"D1", TranscriptKey("S1")}
WorldKeys == DegreeIds \cup {TranscriptKey(x) : x \in Students}
               \cup {GrantKey(x, m) : x \in Students, m \in TargetMSPs}

\* The client identities (certificate attributes ou and username, MSP id).
Admin1 == [ou |-> "admin", username |-> "admin1", msp |-> "Org1MSP"]
StudentS1 == [ou |-> "student", username |-> "S1", msp |-> "Org1MSP"]
\* A certificate with no ou attribute in it.
NoIdentity == [ou |-> "", username |-> "", msp |-> ""]
Identities == {Admin1, StudentS1, NoIdentity}

(***************************************************************************)
(* DegreeContract.  Each function is evaluated on a context                *)
(* ctx = [world, priv, id, ts, transient] and yields what the simulation   *)
(* produced: the response or the error, the keys read and the writes.      *)
(***************************************************************************)
Threw(msg, reads) ==
  [ok |-> FALSE, msg |-> msg, payload |-> Nil, reads |-> reads,
   writes |-> <<>>, pwrites |-> <<>>]
Returned(payload, reads, writes, pwrites) ==
  [ok |-> TRUE, msg |-> <<>>, payload |-> payload, reads |-> reads,
   writes |-> writes, pwrites |-> pwrites]

\* _getTimestamp
getTimestamp(ctx) == Str("T" \o ToString(ctx.ts))

\* A role check that any certificate with an ou attribute passes.
checkRoleAnyOu(ctx, requiredRole) == ctx.id.ou # ""

\* _checkRole: TRUE when the caller's ou is the required role.
checkRole(ctx, requiredRole) == ctx.id.ou # "" /\ ctx.id.ou = requiredRole
AccessDenied(ctx, requiredRole) ==
  <<"Access denied. Required role: ", requiredRole, ", actual role: ",
    IF ctx.id.ou = "" THEN "unknown" ELSE ctx.id.ou>>
requireAdmin(ctx) == checkRole(ctx, "admin")

getState(ctx, key) == ctx.world[key].val
DegreeExists(ctx, degreeId) == getState(ctx, degreeId) # Nil

\* IssueDegree without the DegreeExists check: the record is written over
\* whatever is stored under the degreeId.
IssueDegreeOverwrites(ctx, a) ==
  IF ~requireAdmin(ctx) THEN Threw(AccessDenied(ctx, "admin"), {})
  ELSE
    LET degree == Obj(<< <<"degreeId", Str(a[1])>>,
                         <<"studentId", Str(a[2])>>,
                         <<"status", Str("ACTIVE")>>,
                         <<"timestamp", getTimestamp(ctx)>>,
                         <<"docType", Str("degree")>> >>)
    IN Returned(JSONstringify(degree), {},
                << <<a[1], JSONstringify(degree)>> >>, <<>>)

IssueDegree(ctx, a) ==
  IF ~requireAdmin(ctx) THEN Threw(AccessDenied(ctx, "admin"), {})
  ELSE IF DegreeExists(ctx, a[1])
    THEN Threw(<<"Degree ", a[1], " already exists">>, {a[1]})
  ELSE
    LET degree == Obj(<< <<"degreeId", Str(a[1])>>,
                         <<"studentId", Str(a[2])>>,
                         <<"degreeType", Str(a[3])>>,
                         <<"studentName", Str(a[4])>>,
                         <<"university", Str(a[5])>>,
                         <<"major", Str(a[6])>>,
                         <<"classification", Str(a[7])>>,
                         <<"issueDate", Str(a[8])>>,
                         <<"transcriptHash", Str(a[9])>>,
                         <<"status", Str("ACTIVE")>>,
                         <<"timestamp", getTimestamp(ctx)>>,
                         <<"docType", Str("degree")>> >>)
    IN Returned(JSONstringify(degree), {a[1]},
                << <<a[1], JSONstringify(degree)>> >>, <<>>)

RevokeDegree(ctx, a) ==
  IF ~requireAdmin(ctx) THEN Threw(AccessDenied(ctx, "admin"), {})
  ELSE IF getState(ctx, a[1]) = Nil
    THEN Threw(<<"Degree ", a[1], " does not exist">>, {a[1]})
  ELSE
    LET degree == JSONparse(getState(ctx, a[1]))
        revoked == Put(Put(Put(Put(degree,
                     "status", Str("REVOKED")),
                     "revocationReason", Str(a[2])),
                     "revokedAt", getTimestamp(ctx)),
                     "revokedBy", Str(ctx.id.msp))
    IN IF Get(degree, "status") = Str("REVOKED")
         THEN Threw(<<"Degree ", a[1], " is already revoked">>, {a[1]})
         ELSE Returned(JSONstringify(revoked), {a[1]},
                       << <<a[1], JSONstringify(revoked)>> >>, <<>>)

\* Lines 309-316: the object put in the private collection.
TranscriptData(ctx, studentId) ==
  LET tm == ctx.transient
      personalInfo == IF Has(tm, "personalInfo")
                        THEN JSONparse(Get(tm, "personalInfo"))
                        ELSE Obj(<<>>)
  IN Obj(<< <<"studentId", Str(studentId)>>,
            <<"transcript", JSONparse(Get(tm, "transcript"))>>,
            <<"gpa", BufferToString(Get(tm, "gpa"))>>,
            <<"personalInfo", personalInfo>>,
            <<"updatedAt", getTimestamp(ctx)>>,
            <<"updatedBy", Str(ctx.id.msp)>> >>)

\* The hash taken of the transient fields alone.
HashedTransientOnly(ctx, studentId) ==
  JSONstringify(Obj(<< <<"transcript", JSONparse(Get(ctx.transient, "transcript"))>>,
                       <<"gpa", BufferToString(Get(ctx.transient, "gpa"))>>,
                       <<"personalInfo", JSONparse(Get(ctx.transient, "personalInfo"))>> >>))

\* Line 331: the bytes the transcript hash is taken of.
HashedBytes(ctx, studentId) == JSONstringify(TranscriptData(ctx, studentId))

\* The metadata with the hash of the transcript buffer received, not of
\* the record stored.
PublicMetadataOfBuffer(ctx, studentId) ==
  Obj(<< <<"studentId", Str(studentId)>>,
         <<"updatedAt", getTimestamp(ctx)>>,
         <<"updatedBy", Str(ctx.id.msp)>>,
         <<"transcriptHash", sha256(Get(ctx.transient, "transcript"))>>,
         <<"docType", Str("transcript-metadata")>> >>)

\* Lines 338-344.
PublicMetadata(ctx, studentId) ==
  Obj(<< <<"studentId", Str(studentId)>>,
         <<"updatedAt", getTimestamp(ctx)>>,
         <<"updatedBy", Str(ctx.id.msp)>>,
         <<"transcriptHash", sha256(HashedBytes(ctx, studentId))>>,
         <<"docType", Str("transcript-metadata")>> >>)

UpdateTranscript(ctx, a) ==
  LET tm == ctx.transient
      studentId == a[1]
  IN
  IF ~requireAdmin(ctx) THEN Threw(AccessDenied(ctx, "admin"), {})
  ELSE IF ~Has(tm, "transcript") \/ ~Has(tm, "gpa")
    THEN Threw(<<"Missing required ", "transient", " data: transcript and gpa">>, {})
  ELSE IF LET g == parseFloat(BufferToString(Get(tm, "gpa")).v)
          IN g < 0 \/ g > 40
    THEN Threw(<<"Invalid GPA value. Must be between 0.0 and 4.0">>, {})
  ELSE
    Returned(JSONstringify(Obj(<< <<"success", Str("true")>>,
                                  <<"studentId", Str(studentId)>>,
                                  <<"transcriptHash",
                                    sha256(HashedBytes(ctx, studentId))>>,
                                  <<"message", Str("Transcript updated successfully")>> >>)),
             {},
             << <<TranscriptKey(studentId),
                  JSONstringify(PublicMetadata(ctx, studentId))>> >>,
             << <<studentId, JSONstringify(TranscriptData(ctx, studentId))>> >>)

getPrivateData(ctx, key) ==
  IF key \in DOMAIN ctx.priv THEN ctx.priv[key].val ELSE Nil

\* The query answered from the public metadata record.
QueryTranscriptMetadata(ctx, a) ==
  IF getState(ctx, TranscriptKey("S1")) = Nil
    THEN Threw(<<"Transcript for student ", a[1], " not found">>, {})
    ELSE Returned(getState(ctx, TranscriptKey("S1")), {}, <<>>, <<>>)

QueryTranscript(ctx, a) ==
  IF ctx.id.ou = "student" /\ ctx.id.username # a[1]
    THEN Threw(<<"Access denied", ". Students can only view their own transcript. ">>, {})
  ELSE IF ctx.id.ou # "student" /\ ctx.id.ou # "admin"
    THEN Threw(<<"Access denied", ". Only admin or student can query transcripts. ">>, {})
  ELSE IF getPrivateData(ctx, a[1]) = Nil
    THEN Threw(<<"Transcript for student ", a[1], " not found">>, {})
  ELSE Returned(getPrivateData(ctx, a[1]), {}, <<>>, <<>>)

QueryDegree(ctx, a) ==
  IF getState(ctx, a[1]) = Nil
    THEN Threw(<<"Degree ", a[1], " ", "does not exist">>, {})
    ELSE Returned(getState(ctx, a[1]), {}, <<>>, <<>>)

GrantAccess(ctx, a) ==
  IF ctx.id.ou # "student"
    THEN Threw(<<"Access denied. Only students can grant access to transcripts. ">>, {})
  ELSE IF ctx.id.username # a[1]
    THEN Threw(<<"Access denied. Students can only grant access to their own transcript. ">>, {})
  ELSE
    LET grantRecord == Obj(<< <<"studentId", Str(a[1])>>,
                              <<"targetMSP", Str(a[2])>>,
                              <<"grantedBy", Str(ctx.id.msp)>>,
                              <<"grantedAt", getTimestamp(ctx)>>,
                              <<"docType", Str("access-grant")>> >>)
    IN Returned(JSONstringify(grantRecord), {},
                << <<GrantKey(a[1], a[2]), JSONstringify(grantRecord)>> >>, <<>>)

\* The chaincode function a proposal names.
Invoke(fn, ctx, a) ==
  CASE fn = "IssueDegree" -> IssueDegree(ctx, a)
    [] fn = "RevokeDegree" -> RevokeDegree(ctx, a)
    [] fn = "UpdateTranscript" -> UpdateTranscript(ctx, a)
    [] fn = "GrantAccess" -> GrantAccess(ctx, a)

-----------------------------------------------------------------------------
(***************************************************************************)
(* The services: issueDegree, revokeDegree (degree-service.js),            *)
(* addPrivateTranscript, grantAccess (transcript service).  An error is    *)
(* its message, a sequence of phrases; message.includes(p) asks whether    *)
(* the phrase p is in it.                                                  *)
(***************************************************************************)
MaxCalls == 1         \* service calls in progress at one time
MaxTx == 2            \* proposals built over one run

Includes(msg, pat) == \E i \in DOMAIN msg : msg[i] = pat

NoOutcome == [kind |-> "none", msg |-> <<>>, transactionId |-> 0,
              transcriptHash |-> Nil]
Thrown(kind, msg) == [kind |-> kind, msg |-> msg, transactionId |-> 0,
                      transcriptHash |-> Nil]
Success(transactionId, transcriptHash) ==
  [kind |-> "success", msg |-> <<>>, transactionId |-> transactionId,
   transcriptHash |-> transcriptHash]

\* issueDegree, lines 199-241.
issueDegreeCatch(m) ==
  IF \/ Includes(m, "UNAVAILABLE")
     \/ Includes(m, "connect ECONNREFUSED")
     \/ Includes(m, "Failed to connect")
    THEN Thrown("ConnectionError",
                <<"Failed to connect", " to Fabric network. Service unavailable.">>)
  ELSE IF \/ Includes(m, "endorsement policy")
          \/ Includes(m, "failed to collect enough endorsements")
    THEN Thrown("EndorsementError",
                <<"Transaction endorsement failed. Endorsement policy not satisfied.">>)
  ELSE IF \/ Includes(m, "MVCC_READ_CONFLICT")
          \/ Includes(m, "mvcc read conflict")
    THEN Thrown("ConflictError",
                <<"Transaction conflict detected. Please retry the operation.">>)
  ELSE Thrown("Error", <<"Failed to issue degree: ">> \o m)

\* revokeDegree, lines 439-449.
revokeDegreeCatch(m) ==
  IF Includes(m, "UNAVAILABLE")
    THEN Thrown("ConnectionError", <<"Service unavailable.">>)
  ELSE IF Includes(m, "endorsement policy")
    THEN Thrown("EndorsementError", <<"Endorsement failed.">>)
  ELSE IF Includes(m, "MVCC_READ_CONFLICT")
    THEN Thrown("ConflictError", <<"Conflict detected.">>)
  ELSE Thrown("Error", <<"Failed to revoke degree: ">> \o m)

\* addPrivateTranscript, lines 835-886.
addPrivateTranscriptCatch(m) ==
  IF \/ Includes(m, "UNAVAILABLE")
     \/ Includes(m, "connect ECONNREFUSED")
     \/ Includes(m, "Failed to connect")
    THEN Thrown("ConnectionError",
                <<"Failed to connect", " to Fabric network. Service unavailable.">>)
  ELSE IF \/ Includes(m, "endorsement policy")
          \/ Includes(m, "failed to collect enough endorsements")
    THEN Thrown("EndorsementError",
                <<"Transaction endorsement failed. Endorsement policy not satisfied.">>)
  ELSE IF \/ Includes(m, "MVCC_READ_CONFLICT")
          \/ Includes(m, "mvcc read conflict")
    THEN Thrown("ConflictError",
                <<"Transaction conflict detected. Please retry the operation.">>)
  ELSE IF \/ Includes(m, "transient")
          \/ Includes(m, "expected transient data")
    THEN Thrown("Error",
                <<"Required ", "transient", " data is missing. Internal server error.">>)
  ELSE Thrown("Error", <<"Failed to update transcript: ">> \o m)

\* grantAccess, lines 951-955.
grantAccessCatch(m) == Thrown("Error", <<"Failed to grant access: ">> \o m)

\* The catch block of the operation that is running.
Catch(op, m) ==
  CASE op = "issueDegree" -> issueDegreeCatch(m)
    [] op = "revokeDegree" -> revokeDegreeCatch(m)
    [] op = "addPrivateTranscript" -> addPrivateTranscriptCatch(m)
    [] op = "grantAccess" -> grantAccessCatch(m)

(***************************************************************************)
(* What the gateway, the peers and the ordering service answer with when   *)
(* a phase fails.                                                          *)
(***************************************************************************)
Unavailable == <<"14 ", "UNAVAILABLE", ": No connection established">>
DeadlineExceeded == <<"4 ", "DEADLINE_EXCEEDED", ": Deadline exceeded">>
PolicyUnmet == <<"10 ABORTED: ", "failed to collect enough endorsements">>
TransportErrors == {Unavailable, DeadlineExceeded}
\* A chaincode error: the gateway's status message, with or without the
\* chaincode's own message in it.
EndorseError(msg, withDetails) ==
  <<"10 ABORTED: failed to endorse transaction">> \o
    (IF withDetails THEN <<", chaincode response 500, ">> \o msg ELSE <<>>)
CommitError(code) ==
  <<"Transaction failed to commit with status code (", code, ")">>
\* getInstance / getContractWithUserIdentity throwing: connectToGateway's
\* error (line 701), getContract's (line 789).
AcquireErrors ==
  { <<"Failed to connect", " to Fabric Gateway: ">>,
    <<"Gateway is not connected. Call connect() first.">> }
\* connectWithUserIdentity, lines 875-879: the wallet holds no identity under
\* the username (a registered user who has not enrolled).  The username is
\* any non-empty string the registration was given.
IdentityNotFound(username) ==
  <<"Identity for user ", username, " not found in wallet">>

(***************************************************************************)
(* Inputs.                                                                 *)
(***************************************************************************)
Grades1 == Obj(<< <<"1", Str("8")>>, <<"mon1", Str("9")>> >>)
Grades2 == Obj(<< <<"mon1", Str("7")>> >>)
GradeObjects == {Grades1, Grades2}
PersonalInfo1 == Obj(<< <<"university", Str("KMA")>>, <<"major", Str("IT")>>,
                        <<"dateOfBirth", Str("2002-11-30")>>,
                        <<"gender", Str("male")>> >>)
NoPrivate == [gpa |-> "", detailedGrades |-> Obj(<<>>), personalInfo |-> Obj(<<>>)]

DegreeData(degreeId, studentId) ==
  <<degreeId, studentId, "Bachelor", "Nguyen Van A", "PTIT", "CS", "Good",
    "2025-06-30", "">>
IssueInputs == {DegreeData(d, x) : d \in DegreeIds \cup {""}, x \in Students}
RevokeInputs == {<<d, "fraud">> : d \in DegreeIds} \cup {<<"D1", "">>}
TranscriptInputs ==
  [studentId : Students, gpa : {"3.6"}, detailedGrades : GradeObjects,
   personalInfo : {PersonalInfo1}]
    \cup [studentId : Students, gpa : {"4.5"}, detailedGrades : {Grades2},
          personalInfo : {PersonalInfo1}]
GrantInputs == {<<x, m>> : x \in Students, m \in TargetMSPs \cup {""}}

\* validateDegreeData, lines 33-86: the required fields and the date format.
IsIsoDate(str) == str \in {"2025-06-30"}
validateDegreeData(d) ==
  /\ \A i \in 1..8 : d[i] # ""
  /\ IsIsoDate(d[8])

\* validateTranscriptData, lines 646-708.
validateTranscriptData(t) ==
  /\ t.studentId # ""
  /\ t.gpa # ""
  /\ parseFloat(t.gpa) >= 0 /\ parseFloat(t.gpa) <= 40
  /\ t.detailedGrades.t = "obj"
  /\ \A k \in {"university", "major", "dateOfBirth", "gender"} :
        Has(t.personalInfo, k) /\ Get(t.personalInfo, k).v # ""

\* Lines 773-780: the transient map of addPrivateTranscript.
transientData(t) ==
  Obj(<< <<"transcript", JSONstringify(t.detailedGrades)>>,
         <<"gpa", BufferFrom(Str(t.gpa))>>,
         <<"personalInfo", JSONstringify(t.personalInfo)>> >>)

IdleCall ==
  [op |-> "idle", pc |-> "idle", args |-> <<>>, private |-> NoPrivate,
   txid |-> 0, phases |-> <<>>, resultData |-> Obj(<<>>), failedIn |-> "",
   error |-> <<>>, outcome |-> NoOutcome]

\* contract.newProposal: the proposal with its transaction id (its place in
\* txs), the public arguments, the transient map and the signing identity.
newProposal(fn, args, transient, id) ==
  [fn |-> fn, args |-> args, transient |-> transient, id |-> id, ts |-> now,
   status |-> "proposed", readvers |-> {}, writes |-> <<>>, pwrites |-> <<>>,
   payload |-> Nil]

\* A transaction nothing refers to any more: it is in a block and the call
\* that built it has returned, or it was abandoned before ordering.
Forgotten ==
  [fn |-> "", args |-> <<>>, transient |-> Obj(<<>>), id |-> NoIdentity,
   ts |-> 0, status |-> "gone", readvers |-> {}, writes |-> <<>>,
   pwrites |-> <<>>, payload |-> Nil]

\* A service function has returned or thrown and its caller has not run
\* yet.  The caller's continuation is a microtask: it runs before any other
\* event is delivered.
NoneReturned == \A c \in DOMAIN calls : calls[c].pc # "returned"

\* The call threw `m` in phase `phase`; the catch block of the operation
\* decides what leaves the service.
Throw(c, phase, m) ==
  calls' = [calls EXCEPT ![c].pc = "returned", ![c].failedIn = phase,
                         ![c].error = m,
                         ![c].args = <<>>, ![c].private = NoPrivate,
                         ![c].resultData = Obj(<<>>),
                         ![c].outcome = Catch(calls[c].op, m)]

\* From the entry of a service function to its `await proposal.endorse()`:
\* the contract is obtained (or getting it throws), the proposal is built
\* and sent for endorsement.
Begin(op, fn, args, private, transient, id) ==
  /\ Len(calls) < MaxCalls
  /\ NoneReturned
  /\ \/ /\ Len(txs) < MaxTx
        /\ txs' = Append(txs, newProposal(fn, args, transient, id))
        /\ calls' = Append(calls,
                       [IdleCall EXCEPT !.op = op, !.pc = "endorsing",
                                        !.args = args, !.private = private,
                                        !.txid = Len(txs) + 1,
                                        !.phases = <<"build", "endorse">>])
        /\ now' = now + 1
     \/ /\ \E e \in AcquireErrors :
             calls' = Append(calls,
                         [IdleCall EXCEPT !.op = op, !.pc = "returned",
                                          !.failedIn = "connect",
                                          !.error = e,
                                          !.outcome = Catch(op, e)])
        /\ UNCHANGED <<txs, now>>
  /\ UNCHANGED <<world, priv, ordering>>

\* A ValidationError thrown before anything else, re-thrown as it is.
Invalid(op, msg) ==
  /\ Len(calls) < MaxCalls
  /\ NoneReturned
  /\ calls' = Append(calls,
                 [IdleCall EXCEPT !.op = op, !.pc = "returned",
                                  !.failedIn = "validate",
                                  !.error = msg,
                                  !.outcome = Thrown("ValidationError", msg)])
  /\ UNCHANGED <<world, priv, txs, ordering, now>>

\* The services.  Each starts with the guard of Begin and Invalid (a call
\* slot is free), so that the validation is not evaluated when no call can
\* start.
issueDegree(degreeData, id) ==
  /\ Len(calls) < MaxCalls
  /\ NoneReturned
  /\ IF validateDegreeData(degreeData)
         THEN Begin("issueDegree", "IssueDegree", degreeData, NoPrivate,
                    Obj(<<>>), id)
         ELSE Invalid("issueDegree",
                      <<"degreeId is required and must be a non-empty string">>)

revokeDegree(a, id) ==
  /\ Len(calls) < MaxCalls
  /\ NoneReturned
  /\ IF a[1] # "" /\ a[2] # ""
         THEN Begin("revokeDegree", "RevokeDegree", a, NoPrivate, Obj(<<>>), id)
         ELSE Invalid("revokeDegree",
                      <<IF a[1] = "" THEN "degreeId is required" ELSE "reason is required">>)

\* The gpa passed as a second public argument.
addPrivateTranscriptInArgs(t, id) ==
  LET private == [gpa |-> t.gpa, detailedGrades |-> t.detailedGrades,
                  personalInfo |-> t.personalInfo]
  IN IF validateTranscriptData(t)
       THEN Begin("addPrivateTranscript", "UpdateTranscript",
                  <<t.studentId, t.gpa>>, private, transientData(t), id)
       ELSE Invalid("addPrivateTranscript",
                    <<"gpa must be a valid number between 0.0 and 4.0">>)

addPrivateTranscript(t, id) ==
  /\ Len(calls) < MaxCalls
  /\ NoneReturned
  /\ LET private == [gpa |-> t.gpa, detailedGrades |-> t.detailedGrades,
                       personalInfo |-> t.personalInfo]
       IN IF validateTranscriptData(t)
            THEN Begin("addPrivateTranscript", "UpdateTranscript",
                       <<t.studentId>>, private, transientData(t), id)
            ELSE Invalid("addPrivateTranscript",
                         <<"gpa must be a valid number between 0.0 and 4.0">>)

grantAccess(a, id) ==
  /\ Len(calls) < MaxCalls
  /\ NoneReturned
  /\ IF a[1] # "" /\ a[2] # ""
         THEN Begin("grantAccess", "GrantAccess", a, NoPrivate, Obj(<<>>), id)
         ELSE Invalid("grantAccess",
                      <<IF a[1] = "" THEN "studentId is required" ELSE "targetMSP is required">>)

\* The context a proposal is simulated in on the endorsing peers.
Context(tx) ==
  [world |-> world, priv |-> priv, id |-> tx.id, ts |-> tx.ts,
   transient |-> tx.transient]

\* Lines 804-819 of addPrivateTranscript: the endorsement result, parsed.
parseEndorseResult(op, payload) ==
  IF op = "addPrivateTranscript" /\ payload # Nil
    THEN JSONparse(payload) ELSE Obj(<<>>)

\* proposal.endorse() not awaited: the service goes on to submit whatever
\* the endorsement does.
EndorseNotAwaited(c) ==
  /\ calls[c].pc = "endorsing"
  /\ NoneReturned
  /\ calls' = [calls EXCEPT ![c].pc = "submitting",
                            ![c].phases = Append(calls[c].phases, "submit")]
  /\ UNCHANGED <<world, priv, txs, ordering, now>>

\* `await proposal.endorse()` returns the endorsed transaction, and the
\* service goes on to `transaction.submit()`; or it throws.
EndorseReturns(c) ==
  LET t == calls[c].txid
      sim == Invoke(txs[t].fn, Context(txs[t]), txs[t].args)
  IN
  /\ calls[c].pc = "endorsing"
  /\ NoneReturned
  /\ \/ /\ sim.ok
        /\ txs' = [txs EXCEPT ![t].status = "endorsed",
                              ![t].readvers = {<<k, world[k].ver>> : k \in sim.reads},
                              ![t].writes = sim.writes,
                              ![t].pwrites = sim.pwrites,
                              ![t].payload = sim.payload]
        /\ calls' = [calls EXCEPT
                       ![c].pc = "submitting",
                       ![c].resultData = parseEndorseResult(calls[c].op, sim.payload),
                       ![c].phases = Append(calls[c].phases, "submit")]
     \/ /\ ~sim.ok
        /\ \E withDetails \in BOOLEAN :
             Throw(c, "endorse", EndorseError(sim.msg, withDetails))
        /\ UNCHANGED txs
     \/ /\ \E e \in TransportErrors \cup {PolicyUnmet} : Throw(c, "endorse", e)
        /\ UNCHANGED txs
  /\ UNCHANGED <<world, priv, ordering, now>>

\* Inside transaction.submit(): the ordering service took the transaction
\* and the call waits for its commit status; or sending it failed.
SubmitReturns(c) ==
  LET t == calls[c].txid IN
  /\ calls[c].pc = "submitting"
  /\ NoneReturned
  /\ \/ /\ ordering' = ordering \cup {t}
        /\ txs' = [txs EXCEPT ![t].status = "ordered"]
        /\ calls' = [calls EXCEPT ![c].pc = "commitWait",
                                  ![c].phases = Append(calls[c].phases, "commit")]
     \/ /\ \E e \in TransportErrors : Throw(c, "submit", e)
        /\ UNCHANGED <<txs, ordering>>
  /\ UNCHANGED <<world, priv, now>>

\* Validation that takes every read as current.
ReadsNeverStale(tx) == TRUE

\* The reads of a transaction are still current.
ReadsCurrent(tx) == \A r \in tx.readvers : world[r[1]].ver = r[2]

ApplyWrites(state, writes) ==
  [k \in DOMAIN state |->
     IF \E i \in DOMAIN writes : writes[i][1] = k
       THEN [val |-> Get(Obj(writes), k), ver |-> state[k].ver + 1]
       ELSE state[k]]

\* Some call in progress built transaction t.
Awaited(t) == \E c \in DOMAIN calls : calls[c].txid = t

\* A block committed without validating the reads of its transaction.
CommitUnvalidated(t) ==
  /\ t \in ordering
  /\ NoneReturned
  /\ ordering' = ordering \ {t}
  /\ world' = ApplyWrites(world, txs[t].writes)
  /\ priv' = ApplyWrites(priv, txs[t].pwrites)
  /\ txs' = [txs EXCEPT ![t] = IF Awaited(t)
                                 THEN [@ EXCEPT !.status = "VALID"]
                                 ELSE Forgotten]
  /\ UNCHANGED <<calls, now>>

\* A block with transaction t is committed: its reads are validated and,
\* if they are current, its writes go to the world state and the private
\* collection together.
Commit(t) ==
  /\ t \in ordering
  /\ NoneReturned
  /\ ordering' = ordering \ {t}
  /\ IF ReadsCurrent(txs[t])
       THEN /\ world' = ApplyWrites(world, txs[t].writes)
            /\ priv' = ApplyWrites(priv, txs[t].pwrites)
            /\ txs' = [txs EXCEPT ![t] = IF Awaited(t)
                                           THEN [@ EXCEPT !.status = "VALID"]
                                           ELSE Forgotten]
       ELSE /\ txs' = [txs EXCEPT ![t] =
                         IF Awaited(t)
                           THEN [@ EXCEPT !.status = "MVCC_READ_CONFLICT"]
                           ELSE Forgotten]
            /\ UNCHANGED <<world, priv>>
  /\ UNCHANGED <<calls, now>>

\* What the service returns once submit() has returned.
Result(call) ==
  CASE call.op = "issueDegree" -> Success(call.txid, Nil)
    [] call.op = "revokeDegree" -> Success(call.txid, Nil)
    [] call.op = "addPrivateTranscript" ->
         Success(call.txid, Get(call.resultData, "transcriptHash"))
    [] call.op = "grantAccess" -> Success(0, Nil)

\* A conflict answered by a fresh proposal for the same arguments instead
\* of an error.
CommitStatusRetries(c) ==
  LET t == calls[c].txid IN
  /\ calls[c].pc = "commitWait"
  /\ NoneReturned
  /\ txs[t].status \in {"VALID", "MVCC_READ_CONFLICT"}
  /\ IF txs[t].status = "VALID"
       THEN /\ calls' = [calls EXCEPT ![c].pc = "returned",
                                      ![c].outcome = Result(calls[c])]
            /\ UNCHANGED txs
       ELSE /\ txs' = Append(txs, newProposal(txs[t].fn, txs[t].args,
                                              txs[t].transient, txs[t].id))
            /\ calls' = [calls EXCEPT
                           ![c].pc = "endorsing", ![c].txid = Len(txs) + 1,
                           ![c].phases = calls[c].phases \o <<"build", "endorse">>]
  /\ UNCHANGED <<world, priv, ordering, now>>

\* transaction.submit() returns with the commit status: the service
\* returns its result, or the status is a failure and submit() throws.
CommitStatusReturns(c) ==
  LET t == calls[c].txid IN
  /\ calls[c].pc = "commitWait"
  /\ NoneReturned
  /\ txs[t].status \in {"VALID", "MVCC_READ_CONFLICT"}
  /\ IF txs[t].status = "VALID"
       THEN calls' = [calls EXCEPT ![c].pc = "returned",
                                   ![c].outcome = Result(calls[c])]
       ELSE Throw(c, "commit", CommitError(txs[t].status))
  /\ UNCHANGED <<world, priv, txs, ordering, now>>

\* The commit-status deadline (60 s) passes before the status arrives.
CommitWaitTimesOut(c) ==
  /\ calls[c].pc = "commitWait"
  /\ NoneReturned
  /\ Throw(c, "commitWait", DeadlineExceeded)
  /\ UNCHANGED <<world, priv, txs, ordering, now>>

\* The caller has the result; the call is over.
CallReturn(c) ==
  LET t == calls[c].txid IN
  /\ calls[c].pc = "returned"
  /\ calls' = SubSeq(calls, 1, c - 1) \o SubSeq(calls, c + 1, Len(calls))
  /\ txs' = IF t # 0 /\ t \notin ordering
              THEN [txs EXCEPT ![t] = Forgotten] ELSE txs
  /\ UNCHANGED <<world, priv, ordering, now>>

(***************************************************************************)
(* getTranscript (transcript service): the read path.  evaluateTransaction *)
(* has one peer simulate QueryTranscript on its current state and returns  *)
(* the response; nothing is ordered.                                       *)
(***************************************************************************)
StudentS2 == [ou |-> "student", username |-> "S2", msp |-> "Org1MSP"]
Verifier == [ou |-> "verifier", username |-> "V1", msp |-> "Org2MSP"]
\* The wallet identity connectWithUserIdentity signs with for a username.
IdentityOf(username) ==
  CASE username = "admin1" -> Admin1
    [] username = "S1" -> StudentS1
    [] username = "S2" -> StudentS2
    [] username = "V1" -> Verifier
QueryUsers == {"admin1", "S1", "S2", "V1"}
QueryInputs == {"S1", "S2", ""}

\* The gateway's error for an evaluate the chaincode refused.
EvaluateError(msg, withDetails) ==
  <<"2 UNKNOWN: evaluate call to endorser returned error">> \o
    (IF withDetails THEN <<": chaincode response 500, ">> \o msg ELSE <<>>)

\* getTranscript, lines 912-916.
getTranscriptCatch(m) == Thrown("Error", <<"Failed to get transcript: ">> \o m)

\* What getTranscript returns: the parsed record itself.
Record == [NoOutcome EXCEPT !.kind = "record"]

\* The query sent as a transaction: a proposal is built, endorsed and
\* handed to the orderer.
getTranscriptSubmits(studentId, username) ==
  /\ Len(calls) < MaxCalls
  /\ NoneReturned
  /\ Len(txs) < MaxTx
  /\ txs' = Append(txs, newProposal("QueryTranscript", <<studentId>>, Obj(<<>>),
                                    IdentityOf(username)))
  /\ calls' = Append(calls,
                 [IdleCall EXCEPT !.op = "getTranscript", !.pc = "returned",
                                  !.args = <<studentId, username>>,
                                  !.txid = Len(txs) + 1,
                                  !.phases = <<"build", "endorse", "submit">>,
                                  !.outcome = Record])
  /\ UNCHANGED <<world, priv, ordering, now>>

getTranscript(studentId, username) ==
  LET sim == QueryTranscript([world |-> world, priv |-> priv,
                              id |-> IdentityOf(username), ts |-> now,
                              transient |-> Obj(<<>>)], <<studentId>>)
      call == [IdleCall EXCEPT !.op = "getTranscript", !.pc = "returned",
                               !.args = <<studentId, username>>]
      threw(phase, m, outcome) ==
        [call EXCEPT !.failedIn = phase, !.error = m, !.outcome = outcome]
  IN
  /\ Len(calls) < MaxCalls
  /\ NoneReturned
  /\ \E returned \in
         IF studentId = ""
           THEN {threw("validate", <<"studentId is required">>,
                       Thrown("ValidationError", <<"studentId is required">>))}
           ELSE {threw("connect", e, getTranscriptCatch(e)) : e \in AcquireErrors}
             \cup {threw("evaluate", e, getTranscriptCatch(e)) : e \in TransportErrors}
             \cup (IF sim.ok
                     THEN {[call EXCEPT !.resultData = JSONparse(sim.payload),
                                        !.outcome = Record]}
                     ELSE {threw("evaluate", EvaluateError(sim.msg, d),
                                 getTranscriptCatch(EvaluateError(sim.msg, d))) :
                             d \in BOOLEAN}) :
       calls' = Append(calls, returned)
  /\ UNCHANGED <<world, priv, txs, ordering, now>>

\* verifyDegree, lines 335-364.
verifyDegreeCatch(m, degreeId) ==
  IF \/ Includes(m, "UNAVAILABLE")
     \/ Includes(m, "connect ECONNREFUSED")
     \/ Includes(m, "Failed to connect")
    THEN Thrown("ConnectionError",
                <<"Failed to connect", " to Fabric network. Service unavailable.">>)
  ELSE IF Includes(m, "does not exist")
    THEN Thrown("NotFoundError", <<"Degree with ID ", degreeId, " not found">>)
  ELSE Thrown("Error", <<"Failed to verify degree: ">> \o m)

\* verifyDegree, lines 263-333: one evaluate of QueryDegree.  What is stored
\* under a key is JSON text, so JSON.parse takes it as it is.
verifyDegree(degreeId, username) ==
  LET sim == QueryDegree([world |-> world, priv |-> priv,
                          id |-> IdentityOf(username), ts |-> now,
                          transient |-> Obj(<<>>)], <<degreeId>>)
      degreeData == JSONparse(sim.payload)
      status == IF Get(degreeData, "status") \in {Nil, Str("")}
                  THEN Str("ACTIVE") ELSE Get(degreeData, "status")
      call == [IdleCall EXCEPT !.op = "verifyDegree", !.pc = "returned",
                               !.args = <<degreeId, username>>]
      threw(phase, m, outcome) ==
        [call EXCEPT !.failedIn = phase, !.error = m, !.outcome = outcome]
  IN
  /\ Len(calls) < MaxCalls
  /\ NoneReturned
  /\ \E returned \in
         IF degreeId = ""
           THEN {threw("validate",
                       <<"degreeId is required and must be a non-empty string">>,
                       Thrown("ValidationError",
                              <<"degreeId is required and must be a non-empty string">>))}
           ELSE {threw("connect", e, verifyDegreeCatch(e, degreeId)) : e \in AcquireErrors}
             \cup {threw("evaluate", e, verifyDegreeCatch(e, degreeId)) :
                     e \in TransportErrors}
             \cup (IF sim.ok
                     THEN {[call EXCEPT
                              !.resultData =
                                 Obj(<< <<"success", Str("true")>>,
                                        <<"verified",
                                          IF status = Str("ACTIVE")
                                            THEN Str("true") ELSE Str("false")>>,
                                        <<"degree", Put(degreeData, "status", status)>> >>),
                              !.outcome = Record]}
                     ELSE {threw("evaluate", EvaluateError(sim.msg, d),
                                 verifyDegreeCatch(EvaluateError(sim.msg, d), degreeId)) :
                             d \in BOOLEAN}) :
       calls' = Append(calls, returned)
  /\ UNCHANGED <<world, priv, txs, ordering, now>>

LedgerInit ==
  /\ world = [k \in WorldKeys |-> [val |-> Nil, ver |-> 0]]
  /\ priv = [x \in Students |-> [val |-> Nil, ver |-> 0]]
  /\ txs = <<>>
  /\ ordering = {}
  /\ calls = <<>>

Init == ConnInit /\ LedgerInit /\ StoreInit

\* The services and the ledger.
Next ==
  \/ \E d \in IssueInputs, id \in Identities :
       issueDegree(d, id) /\ UNCHANGED <<connVars, storeVars>>
  \/ \E a \in RevokeInputs, id \in Identities :
       revokeDegree(a, id) /\ UNCHANGED <<connVars, storeVars>>
  \/ \E t \in TranscriptInputs, id \in Identities :
       addPrivateTranscript(t, id) /\ UNCHANGED <<connVars, storeVars>>
  \/ \E a \in GrantInputs, id \in Identities :
       grantAccess(a, id) /\ UNCHANGED <<connVars, storeVars>>
  \/ \E c \in DOMAIN calls : EndorseReturns(c) /\ UNCHANGED <<connVars, storeVars>>
  \/ \E c \in DOMAIN calls : SubmitReturns(c) /\ UNCHANGED <<connVars, storeVars>>
  \/ \E t \in DOMAIN txs : Commit(t) /\ UNCHANGED <<connVars, storeVars>>
  \/ \E c \in DOMAIN calls : CommitStatusReturns(c) /\ UNCHANGED <<connVars, storeVars>>
  \/ \E c \in DOMAIN calls : CommitWaitTimesOut(c) /\ UNCHANGED <<connVars, storeVars>>
  \/ \E c \in DOMAIN calls : CallReturn(c) /\ UNCHANGED <<connVars, storeVars>>

Spec == Init /\ [][Next]_vars

\* The ledger once an admin has issued degree D1 and the call has returned:
\* the record IssueDegree writes is under D1, at version 1.
EmptyWorld == [k \in WorldKeys |-> [val |-> Nil, ver |-> 0]]
EmptyPrivate == [x \in Students |-> [val |-> Nil, ver |-> 0]]
IssuedWorld ==
  ApplyWrites(EmptyWorld,
              IssueDegree([world |-> EmptyWorld, priv |-> EmptyPrivate,
                           id |-> Admin1, ts |-> 0, transient |-> Obj(<<>>)],
                          DegreeData("D1", "S1")).writes)

IssuedInit ==
  /\ ConnInit
  /\ StoreInit
  /\ world = IssuedWorld
  /\ priv = EmptyPrivate
  /\ txs = <<>>
  /\ ordering = {}
  /\ calls = <<>>

\* The services and the ledger, degree D1 already issued.
SpecIssued == IssuedInit /\ [][Next]_vars

\* Two issueDegree requests for D1 that arrived one after the other, each
\* now at its `await proposal.endorse()`.
RaceInit ==
  /\ StoreInit
  /\ userGateways = [u \in Users |-> NoEntry]
  /\ channels = <<>>
  /\ conn = [p \in Callers |-> IdleCaller]
  /\ manager = [gateway |-> "open", client |-> "open", isConnected |-> TRUE]
  /\ maint = NoMaint
  /\ now = 2
  /\ world = EmptyWorld
  /\ priv = EmptyPrivate
  /\ ordering = {}
  /\ txs = [t \in 1..2 |->
              [newProposal("IssueDegree", DegreeData("D1", "S1"), Obj(<<>>), Admin1)
                 EXCEPT !.ts = t - 1]]
  /\ calls = [c \in 1..2 |->
                [IdleCall EXCEPT !.op = "issueDegree", !.pc = "endorsing",
                                 !.args = DegreeData("D1", "S1"),
                                 !.txid = c,
                                 !.phases = <<"build", "endorse">>]]

\* The services and the ledger, two issueDegree calls for D1 in progress.
SpecRace == RaceInit /\ [][Next]_vars

\* The services, the read path and the ledger.
QueryNext ==
  \/ Next
  \/ \E studentId \in QueryInputs, username \in QueryUsers :
       getTranscript(studentId, username) /\ UNCHANGED <<connVars, storeVars>>
  \/ \E degreeId \in DegreeIds \cup {""} :
       verifyDegree(degreeId, "V1") /\ UNCHANGED <<connVars, storeVars>>

SpecQuery == Init /\ [][QueryNext]_vars

\* The connection manager.
ConnNext ==
  \/ \E p \in Callers, u \in Users :
       connectWithUserIdentity(p, u) /\ UNCHANGED <<managerVars, ledgerVars, storeVars>>
  \/ \E p \in Callers : GotIdentity(p) /\ UNCHANGED <<managerVars, ledgerVars, storeVars>>
  \/ \E p \in Callers : LoadedTls(p) /\ UNCHANGED <<managerVars, ledgerVars, storeVars>>
  \/ \E p \in Callers : GatewayConnected(p) /\ UNCHANGED <<managerVars, ledgerVars, storeVars>>
  \/ \E p \in Callers : ConnReturn(p) /\ UNCHANGED <<managerVars, ledgerVars, storeVars>>
  \/ Tick /\ UNCHANGED <<connVars, ledgerVars, storeVars>>

SpecConn == Init /\ [][ConnNext]_vars

\* The catch blocks alone: an operation whose SDK call threw `m`.
SdkErrors ==
  TransportErrors \cup {PolicyUnmet} \cup AcquireErrors
    \cup {CommitError("MVCC_READ_CONFLICT"),
          EndorseError(<<"Degree ", "D1", " already exists">>, TRUE),
          EndorseError(<<>>, FALSE)}
    \cup {IdentityNotFound(u) : u \in {"V2", "transient"}}
Operations == {"issueDegree", "revokeDegree", "addPrivateTranscript", "grantAccess"}
MaxCaught == 2        \* calls whose error was caught, their callers not yet run

Caught(op, phase, m) ==
  /\ Len(calls) < MaxCaught
  /\ calls' = Append(calls,
                 [IdleCall EXCEPT !.op = op, !.pc = "returned",
                                  !.failedIn = phase, !.error = m,
                                  !.outcome = Catch(op, m)])
  /\ UNCHANGED <<world, priv, txs, ordering, now>>

CatchNext ==
  \/ \E op \in Operations, m \in SdkErrors :
       Caught(op, IF m = CommitError("MVCC_READ_CONFLICT") THEN "commit" ELSE "sdk", m)
         /\ UNCHANGED <<connVars, storeVars>>
  \/ \E c \in DOMAIN calls : CallReturn(c) /\ UNCHANGED <<connVars, storeVars>>

SpecCatch == Init /\ [][CatchNext]_vars

-----------------------------------------------------------------------------
(***************************************************************************)
(* GatewayConnectionManager: teardown and eviction.  gateway.close() and   *)
(* client.close() are synchronous and disconnectUserGateway awaits         *)
(* nothing, so cleanupStaleConnections and disconnect each run to their    *)
(* end before any other callback; a close() may throw.                     *)
(***************************************************************************)
MaxAges == {0, 1}     \* the maxAge values cleanupStaleConnections is called with

\* The entries of the map.
Cached(ug) == {u \in Users : ug[u] # NoEntry}

\* disconnectUserGateway(username) on st = [ug, ch] (the map and the gRPC
\* clients): what it can leave.  Both closes succeed and the entry is
\* deleted; or gateway.close() throws; or client.close() throws after the
\* gateway was closed.  The error is caught and logged, the entry stays.
disconnectUserGateway(st, username) ==
  LET cached == st.ug[username] IN
  IF cached = NoEntry THEN {st}
  ELSE {[ug |-> [st.ug EXCEPT ![username] = NoEntry],
         ch |-> [st.ch EXCEPT ![cached.gateway].gateway = "closed",
                              ![cached.client].client = "closed"]],
        st,
        [ug |-> st.ug,
         ch |-> [st.ch EXCEPT ![cached.gateway].gateway = "closed"]]}

\* The loop `for (const [username] of ...) await disconnectUserGateway`
\* over the entries S.
RECURSIVE disconnectEach(_, _)
disconnectEach(S, st) ==
  IF S = {} THEN {st}
  ELSE LET username == CHOOSE u \in S : TRUE
       IN UNION {disconnectEach(S \ {username}, st2) :
                   st2 \in disconnectUserGateway(st, username)}

disconnectAllUserGateways(st) == disconnectEach(Cached(st.ug), st)

\* The entries cleanupStaleConnections finds stale.
Stale(maxAge) == {u \in Cached(userGateways) : now - userGateways[u].lastUsed > maxAge}

\* An eviction that takes the default connection for one more idle entry,
\* in use since startup.
cleanupStaleWithDefault(maxAge) ==
  /\ maint = NoMaint
  /\ \E st \in disconnectEach(Stale(maxAge), [ug |-> userGateways, ch |-> channels]) :
       /\ userGateways' = st.ug
       /\ channels' = st.ch
  /\ manager' = IF now > maxAge
                  THEN [gateway |-> "null", client |-> "null", isConnected |-> FALSE]
                  ELSE manager
  /\ maint' = [NoMaint EXCEPT !.op = "cleanupStaleConnections",
                              !.maxAge = maxAge,
                              !.result = Cardinality(Stale(maxAge))]
  /\ UNCHANGED <<conn, now>>

cleanupStaleConnections(maxAge) ==
  /\ maint = NoMaint
  /\ \E st \in disconnectEach(Stale(maxAge), [ug |-> userGateways, ch |-> channels]) :
       /\ userGateways' = st.ug
       /\ channels' = st.ch
  /\ maint' = [NoMaint EXCEPT !.op = "cleanupStaleConnections",
                              !.maxAge = maxAge,
                              !.result = Cardinality(Stale(maxAge))]
  /\ UNCHANGED <<conn, manager, now>>

\* disconnect(): nothing to do, or the user gateways are closed, then the
\* default gateway and its client; a close() of these that throws is
\* rethrown.
disconnect ==
  /\ maint = NoMaint
  /\ IF ~manager.isConnected /\ Cached(userGateways) = {}
       THEN /\ maint' = [NoMaint EXCEPT !.op = "disconnect"]
            /\ UNCHANGED <<userGateways, channels, manager>>
       ELSE /\ \E st \in disconnectAllUserGateways([ug |-> userGateways, ch |-> channels]) :
                 /\ userGateways' = st.ug
                 /\ channels' = st.ch
            /\ \/ /\ manager' = [gateway |-> "null", client |-> "null",
                                  isConnected |-> FALSE]
                  /\ maint' = [NoMaint EXCEPT !.op = "disconnect"]
               \/ /\ manager.gateway # "null"
                  /\ manager' = manager
                  /\ maint' = [NoMaint EXCEPT !.op = "disconnect", !.threw = TRUE]
               \/ /\ manager.client # "null"
                  /\ manager' = [manager EXCEPT !.gateway = "null"]
                  /\ maint' = [NoMaint EXCEPT !.op = "disconnect", !.threw = TRUE]
  /\ UNCHANGED <<conn, now>>

\* The service `op` called without a username: getInstance() returns the
\* instance, getContractWithUserIdentity falls back to getContract, which
\* returns a contract of the default gateway or throws; the catch block of
\* the service decides what leaves it.  (gateway.getNetwork and
\* network.getContract only build local objects; they are taken not to
\* throw.)
getContract(op) ==
  /\ maint = NoMaint
  /\ maint' = IF ~manager.isConnected \/ manager.gateway = "null"
                THEN [NoMaint EXCEPT
                        !.op = op, !.threw = TRUE,
                        !.outcome = Catch(op, <<"Gateway is not connected. Call connect() first.">>).kind]
                ELSE [NoMaint EXCEPT !.op = op, !.outcome = "contract"]
  /\ UNCHANGED <<userGateways, channels, conn, manager, now>>

\* The caller of the manager call runs.
MaintReturn ==
  /\ maint # NoMaint
  /\ maint' = NoMaint
  /\ UNCHANGED <<userGateways, channels, conn, manager, now>>

\* The connection manager over its life: one request at a time asking
\* for a user gateway, the clock, and the manager calls.
MaintNext ==
  \/ /\ maint = NoMaint
     /\ \/ \E u \in Users : connectWithUserIdentity(1, u)
        \/ GotIdentity(1)
        \/ LoadedTls(1)
        \/ GatewayConnected(1)
        \/ ConnReturn(1)
        \/ Tick /\ UNCHANGED <<userGateways, channels, conn>>
     /\ UNCHANGED <<managerVars, ledgerVars, storeVars>>
  \/ \E maxAge \in MaxAges : cleanupStaleConnections(maxAge) /\ UNCHANGED <<ledgerVars, storeVars>>
  \/ disconnect /\ UNCHANGED <<ledgerVars, storeVars>>
  \/ \E op \in Operations : getContract(op) /\ UNCHANGED <<ledgerVars, storeVars>>
  \/ MaintReturn /\ UNCHANGED <<ledgerVars, storeVars>>

SpecMaint == Init /\ [][MaintNext]_vars

-----------------------------------------------------------------------------
(***************************************************************************)
(* GatewayConnectionManager.getInstance and connect, from a process in     *)
(* which no instance exists yet.                                           *)
(***************************************************************************)
\* GatewayConnectionManager.instance is null.
NoInstance == [gateway |-> "undefined", client |-> "undefined", isConnected |-> FALSE]
\* getInstance up to its await: with no instance, one is constructed and
\* connect() starts reading the certificate files; with an instance, that
\* instance is returned as it is.  result is 1 when the instance handed
\* out is connected.
getInstance(p) ==
  /\ conn[p].pc = "idle"
  /\ maint = NoMaint
  /\ IF manager = NoInstance
       THEN /\ manager' = [gateway |-> "null", client |-> "null",
                            isConnected |-> FALSE]
            /\ conn' = [conn EXCEPT ![p].pc = "connect"]
       ELSE /\ conn' = [conn EXCEPT ![p].pc = "instance",
                                    ![p].result = IF manager.isConnected THEN 1 ELSE 0]
            /\ UNCHANGED manager
  /\ UNCHANGED <<userGateways, channels, maint, now>>

\* connect() after its awaits: the gateway is connected and getInstance
\* returns the instance; or reading a file threw; or connectToGateway
\* threw, this.client already set.  The error is rethrown to the caller of
\* getInstance.
connect(p) ==
  /\ conn[p].pc = "connect"
  /\ maint = NoMaint
  /\ \/ /\ manager' = [gateway |-> "open", client |-> "open", isConnected |-> TRUE]
        /\ conn' = [conn EXCEPT ![p].pc = "instance", ![p].result = 1]
     \/ /\ conn' = [conn EXCEPT ![p].pc = "failed"]
        /\ \/ UNCHANGED manager
           \/ manager' = [manager EXCEPT !.client = "open"]
  /\ UNCHANGED <<userGateways, channels, maint, now>>

\* The caller of getInstance has the instance (or the error).
InstanceReturn(p) ==
  /\ conn[p].pc \in {"instance", "failed"}
  /\ conn' = [conn EXCEPT ![p] = IdleCaller]
  /\ UNCHANGED <<userGateways, channels, manager, maint, now>>

StartInit ==
  /\ userGateways = [u \in Users |-> NoEntry]
  /\ channels = <<>>
  /\ conn = [p \in Callers |-> IdleCaller]
  /\ manager = NoInstance
  /\ maint = NoMaint
  /\ now = 0
  /\ LedgerInit
  /\ StoreInit

\* Startup: callers of getInstance, and holders of the instance asking it
\* for a contract of the default connection.
StartNext ==
  \/ \E p \in Callers : getInstance(p) /\ UNCHANGED <<ledgerVars, storeVars>>
  \/ \E p \in Callers : connect(p) /\ UNCHANGED <<ledgerVars, storeVars>>
  \/ \E p \in Callers : InstanceReturn(p) /\ UNCHANGED <<ledgerVars, storeVars>>
  \/ \E op \in Operations :
       manager # NoInstance /\ getContract(op) /\ UNCHANGED <<ledgerVars, storeVars>>
  \/ MaintReturn /\ UNCHANGED <<ledgerVars, storeVars>>

SpecStart == StartInit /\ [][StartNext]_vars

\* A call on the cached gateway of `username` fails with a transport
\* error (UNAVAILABLE): the service's catch block throws ConnectionError
\* and nothing is done to the entry in userGateways.  The gRPC client is
\* marked as the one the fault was detected on.
TransportFault(username) ==
  /\ userGateways[username] # NoEntry
  /\ channels[userGateways[username].client].client = "open"
  /\ channels' = [channels EXCEPT ![userGateways[username].client].client = "faulted"]
  /\ UNCHANGED <<userGateways, conn, now>>

\* The per-user gateways with transport faults on them.
FaultNext ==
  \/ ConnNext
  \/ \E u \in Users : TransportFault(u) /\ UNCHANGED <<managerVars, ledgerVars, storeVars>>

SpecFault == Init /\ [][FaultNext]_vars

-----------------------------------------------------------------------------
(***************************************************************************)
(* db.js: the pool and query().  query runs in segments separated by its   *)
(* awaits (currentPool.query, the one-second timer); other callbacks run   *)
(* between them.  A Pool is its number in the order of creation.           *)
(***************************************************************************)
\* What currentPool.query can reject with: the message and the code.
DbErrors ==
  { [message |-> <<"Connection terminated", " unexpectedly">>, code |-> ""],
    [message |-> <<"timeout", " exceeded when trying to connect">>, code |-> ""],
    [message |-> <<"read ECONNRESET">>, code |-> "ECONNRESET"],
    [message |-> <<"connect ECONNREFUSED 127.0.0.1:5432">>, code |-> "ECONNREFUSED"],
    [message |-> <<"duplicate key value violates unique constraint">>,
     code |-> "23505"] }

\* Every error taken as a connection error.
IsAnyError(error) == TRUE

\* Lines 103-106.
IsConnectionError(error) ==
  \/ Includes(error.message, "Connection terminated")
  \/ Includes(error.message, "connection refused")
  \/ Includes(error.message, "timeout")
  \/ error.code = "ECONNRESET"

\* getPool applied to the module's pool: a new Pool when there is none.
getPool(pl) ==
  IF pl.current = 0
    THEN [current |-> pl.made + 1, made |-> pl.made + 1]
    ELSE pl

\* Lines 86-93: the pool is taken and the first currentPool.query is sent.
query(q) ==
  /\ queries[q].pc = "idle"
  /\ pool.made < MaxPools
  /\ pool' = getPool(pool)
  /\ queries' = [queries EXCEPT ![q] =
                   [IdleQuery EXCEPT !.pc = "querying", !.retries = 2,
                                     !.currentPool = getPool(pool).current]]

\* Lines 93-128: currentPool.query resolved, and query returns the result;
\* or it rejected: a connection error drops the pool, makes a new one and
\* either throws (no retries left) or starts the timer; any other error
\* is thrown at once.
PoolQueryReturns(q) ==
  /\ queries[q].pc = "querying"
  /\ \/ /\ queries' = [queries EXCEPT ![q].pc = "returned", ![q].res = "rows"]
        /\ UNCHANGED pool
     \/ \E error \in DbErrors :
          IF IsConnectionError(error)
            THEN LET fresh == getPool([pool EXCEPT !.current = 0]) IN
                 /\ pool' = fresh
                 /\ queries' = [queries EXCEPT
                       ![q].retries = queries[q].retries - 1,
                       ![q].currentPool = fresh.current,
                       ![q].error = error,
                       ![q].pc = IF queries[q].retries - 1 = 0
                                   THEN "threw" ELSE "waiting"]
            ELSE /\ queries' = [queries EXCEPT ![q].pc = "threw",
                                               ![q].error = error]
                 /\ UNCHANGED pool

\* Lines 120, 91-93: the timer fired; the loop goes round while there are
\* retries left, and past its end the function resolves with no value.
RetryTimer(q) ==
  /\ queries[q].pc = "waiting"
  /\ queries' = [queries EXCEPT ![q] =
                   IF queries[q].retries > 0
                     THEN [@ EXCEPT !.pc = "querying"]
                     ELSE [@ EXCEPT !.pc = "returned", !.res = "undefined"]]
  /\ UNCHANGED pool

\* The caller of query has the result or the error.
QueryReturn(q) ==
  /\ queries[q].pc \in {"returned", "threw"}
  /\ queries' = [queries EXCEPT ![q] = IdleQuery]
  /\ UNCHANGED pool

\* Lines 54-58: the pool reported an error on an idle client.
PoolError ==
  /\ pool.current # 0
  /\ pool' = [pool EXCEPT !.current = 0]
  /\ UNCHANGED queries

DbNext ==
  \/ /\ \/ \E q \in 1..MaxQueries : query(q)
        \/ \E q \in 1..MaxQueries : PoolQueryReturns(q)
        \/ \E q \in 1..MaxQueries : RetryTimer(q)
        \/ \E q \in 1..MaxQueries : QueryReturn(q)
        \/ PoolError
     /\ UNCHANGED <<connVars, now, ledgerVars, users, wallet, enrolls>>

SpecDb == Init /\ [][DbNext]_vars

-----------------------------------------------------------------------------
(***************************************************************************)
(* AuthService.enrollUser.  It runs in segments separated by its awaits    *)
(* (_getUser, ca.enroll, putIdentity's SELECT and INSERT/UPDATE,           *)
(* _saveUser); other callbacks run between them.  A certificate is its     *)
(* number among those the CA issued for the enrollment id.                 *)
(***************************************************************************)
EnrollFailed(e, msg) ==
  enrolls' = [enrolls EXCEPT ![e].pc = "failed", ![e].error = msg]

\* Line 442: the call starts and awaits _getUser.
enrollUser(e, username, enrollmentSecret) ==
  /\ enrolls[e].pc = "idle"
  /\ enrolls' = [enrolls EXCEPT ![e] =
                   [IdleEnroll EXCEPT !.pc = "getUser", !.username = username,
                                      !.secret = enrollmentSecret]]
  /\ UNCHANGED <<users, wallet>>

\* Lines 444-464: the record came back; the three checks, then ca.enroll.
GotUser(e) ==
  LET u == enrolls[e].username IN
  /\ enrolls[e].pc = "getUser"
  /\ IF u \notin Users \/ ~users[u].exists
       THEN EnrollFailed(e, <<"User not found">>)
     ELSE IF users[u].enrollmentSecret # enrolls[e].secret
       THEN EnrollFailed(e, <<"Invalid enrollment secret">>)
     ELSE IF users[u].enrolled
       THEN EnrollFailed(e, <<"User already enrolled">>)
     ELSE enrolls' = [enrolls EXCEPT ![e].pc = "caEnroll"]
  /\ UNCHANGED <<users, wallet>>

\* Lines 461-486: the CA issued a certificate (or refused), and
\* putIdentity is awaited.
CaEnrolled(e) ==
  LET u == enrolls[e].username IN
  /\ enrolls[e].pc = "caEnroll"
  /\ \/ /\ users[u].certs < MaxVersion
        /\ users' = [users EXCEPT ![u].certs = @ + 1]
        /\ enrolls' = [enrolls EXCEPT ![e].pc = "putIdentity",
                                      ![e].cert = users[u].certs + 1]
     \/ /\ EnrollFailed(e, <<"Failed to enroll with Fabric CA: ", "enroll failed">>)
        /\ UNCHANGED users
  /\ UNCHANGED wallet

\* WalletManager.putIdentity, user-store.js 398-456: the SELECT, then the
\* UPDATE of the row found or the INSERT of a new one (username is UNIQUE
\* and refers to users).  enrollUser wraps what it throws (line 515-518).
putIdentity(e) ==
  LET u == enrolls[e].username IN
  /\ enrolls[e].pc \in {"putIdentity", "putWrite"}
  /\ IF enrolls[e].pc = "putIdentity"
       THEN /\ enrolls' = [enrolls EXCEPT ![e].pc = "putWrite",
                                          ![e].existing = wallet[u] # 0]
            /\ UNCHANGED wallet
     ELSE IF enrolls[e].existing
       THEN /\ wallet' = IF wallet[u] # 0
                           THEN [wallet EXCEPT ![u] = enrolls[e].cert] ELSE wallet
            /\ enrolls' = [enrolls EXCEPT ![e].pc = "saveUser"]
     ELSE IF wallet[u] # 0 \/ ~users[u].exists
       THEN /\ EnrollFailed(e, <<"Failed to enroll with Fabric CA: ",
                                 IF wallet[u] # 0
                                   THEN "duplicate key value violates unique constraint"
                                   ELSE "violates foreign key constraint">>)
            /\ UNCHANGED wallet
     ELSE /\ wallet' = [wallet EXCEPT ![u] = enrolls[e].cert]
          /\ enrolls' = [enrolls EXCEPT ![e].pc = "saveUser"]
  /\ UNCHANGED users

\* Lines 488-512: the record read at the start, with enrolled = true and
\* the identity, is saved (setUser, user-store.js 96-200: one transaction
\* that writes the user row and the identity row), and the call returns.
SavedUser(e) ==
  LET u == enrolls[e].username IN
  /\ enrolls[e].pc = "saveUser"
  /\ users' = [users EXCEPT ![u].exists = TRUE,
                            ![u].enrollmentSecret = enrolls[e].secret,
                            ![u].enrolled = TRUE]
  /\ wallet' = [wallet EXCEPT ![u] = enrolls[e].cert]
  /\ enrolls' = [enrolls EXCEPT ![e].pc = "done"]

\* The caller has the result or the error.
EnrollReturn(e) ==
  /\ enrolls[e].pc \in {"done", "failed"}
  /\ enrolls' = [enrolls EXCEPT ![e] = IdleEnroll]
  /\ UNCHANGED <<users, wallet>>

EnrollNext ==
  \/ /\ \/ \E e \in 1..MaxEnrollers, u \in {"ghost", "S1", "nobody"},
                x \in {"secret-ghost", "secret-S1", "wrong"} : enrollUser(e, u, x)
        \/ \E e \in 1..MaxEnrollers : GotUser(e)
        \/ \E e \in 1..MaxEnrollers : CaEnrolled(e)
        \/ \E e \in 1..MaxEnrollers : putIdentity(e)
        \/ \E e \in 1..MaxEnrollers : SavedUser(e)
        \/ \E e \in 1..MaxEnrollers : EnrollReturn(e)
     /\ UNCHANGED <<connVars, now, ledgerVars, pool, queries>>

SpecEnroll == Init /\ [][EnrollNext]_vars

\* AuthService.deleteUser, lines 788-809, for a user that exists: the
\* identity is removed from the wallet (WalletManager.removeIdentity,
\* user-store.js 506-524), and after the next await the user row is deleted
\* (and with it, ON DELETE CASCADE, any identity row).  Neither touches the
\* connection manager.
removeIdentity(username) ==
  /\ users[username].exists
  /\ wallet' = [wallet EXCEPT ![username] = 0]
  /\ UNCHANGED <<users, enrolls>>

deleteUser(targetUsername) ==
  /\ users[targetUsername].exists
  /\ wallet[targetUsername] = 0
  /\ users' = [users EXCEPT ![targetUsername].exists = FALSE]
  /\ UNCHANGED <<wallet, enrolls>>

\* One request at a time asking for a user gateway, while users are deleted.
WalletNext ==
  \/ /\ \/ \E u \in Users : connectWithUserIdentity(1, u)
        \/ GotIdentity(1)
        \/ LoadedTls(1)
        \/ GatewayConnected(1)
        \/ ConnReturn(1)
     /\ UNCHANGED <<managerVars, ledgerVars, storeVars>>
  \/ /\ \/ \E u \in Users : removeIdentity(u)
        \/ \E u \in Users : deleteUser(u)
     /\ UNCHANGED <<connVars, now, ledgerVars, pool, queries>>

SpecWallet == Init /\ [][WalletNext]_vars

-----------------------------------------------------------------------------
(***************************************************************************)
(* Properties.                                                             *)
(***************************************************************************)

\* The open gRPC clients created for owner u.
OpenChannels(u) ==
  {i \in DOMAIN channels : channels[i].owner = u /\ channels[i].client = "open"}

\* C1: concurrent connectWithUserIdentity calls for one owner create exactly
\* one channel: at no time are there two open gRPC clients for one owner.
C1_SingleChannelPerOwner ==
  \A u \in Users : Cardinality(OpenChannels(u)) <= 1

PhaseOrder == <<"build", "endorse", "submit", "commit">>
IsPrefix(s, t) == Len(s) <= Len(t) /\ \A i \in DOMAIN s : s[i] = t[i]
\* How many phases were invoked when a call failed in `phase`.
PhasesInvoked(phase) ==
  CASE phase \in {"validate", "connect"} -> <<>>
    [] phase = "endorse" -> SubSeq(PhaseOrder, 1, 2)
    [] phase = "submit" -> SubSeq(PhaseOrder, 1, 3)
    [] phase \in {"commit", "commitWait"} -> PhaseOrder

Occurrences(s, x) == Cardinality({i \in DOMAIN s : s[i] = x})

\* C3: no operation retries: a proposal is built only when a call starts,
\* one for the call, and no call invokes a phase twice, whatever the
\* failure.
C3_NoRetry ==
  [][/\ Len(txs') > Len(txs) =>
          /\ Len(txs') = Len(txs) + 1
          /\ Len(calls') = Len(calls) + 1
          /\ calls'[Len(calls')].txid = Len(txs')
     /\ \A c \in DOMAIN calls' :
          \A i \in DOMAIN PhaseOrder :
            Occurrences(calls'[c].phases, PhaseOrder[i]) <= 1]_vars

\* A call lost the commit race and returned the conflict; it built one
\* proposal.
C3_Witness ==
  \E c \in DOMAIN calls :
    /\ calls[c].failedIn = "commit"
    /\ calls[c].outcome.kind = "ConflictError"
    /\ calls[c].phases = PhaseOrder

C5_EndorseTimeout ==
  \A c \in DOMAIN calls :
    (/\ calls[c].op \in {"issueDegree", "revokeDegree", "addPrivateTranscript"}
     /\ calls[c].failedIn = "endorse"
     /\ calls[c].error = DeadlineExceeded)
      => /\ calls[c].outcome.kind = "EndorsementError"
         /\ calls[c].txid \notin ordering
         /\ txs[calls[c].txid].status = "proposed"

\* What an operation returns when its transaction failed for certain: the
\* endorsement or the hand-over to ordering failed, so nothing was ordered.
DefiniteFailures(op) == {Catch(op, e) : e \in TransportErrors \cup {PolicyUnmet}}

\* C6: a commit-wait deadline that passes after the transaction was handed
\* to ordering gives the caller an outcome that no failed transaction gives.
C6_CommitUnknownDistinct ==
  \A c \in DOMAIN calls :
    calls[c].failedIn = "commitWait"
      => calls[c].outcome \notin DefiniteFailures(calls[c].op)

\* sha256 of the serialized private fields, as a client would compute it.
hashOfPrivateFields(private) ==
  sha256(JSONstringify(Obj(<< <<"gpa", Str(private.gpa)>>,
                              <<"detailedGrades", private.detailedGrades>>,
                              <<"personalInfo", private.personalInfo>> >>)))

\* C7: addPrivateTranscript submits only when the hash in the endorsement
\* result equals the sha256 of the serialized private fields.
C7_HashVerifiedBeforeSubmit ==
  \A c \in DOMAIN calls :
    (/\ calls[c].op = "addPrivateTranscript"
     /\ Len(calls[c].phases) >= 3)
      => Get(calls[c].resultData, "transcriptHash")
           = hashOfPrivateFields(calls[c].private)

\* The transcriptHash of the PublicMetadata record transaction tx writes.
RecordedHash(tx) == Get(JSONparse(tx.writes[1][2]), "transcriptHash")

PrivateRecordOf(call, tx) ==
  Obj(<< <<"studentId", Str(tx.args[1])>>,
         <<"transcript", call.private.detailedGrades>>,
         <<"gpa", Str(call.private.gpa)>>,
         <<"personalInfo", call.private.personalInfo>>,
         <<"updatedAt", Str("T" \o ToString(tx.ts))>>,
         <<"updatedBy", Str(tx.id.msp)>> >>)

C9_HashMatchesPrivate ==
  \A x \in Students :
    priv[x].val # Nil =>
      Get(JSONparse(world[TranscriptKey(x)].val), "transcriptHash")
        = sha256(priv[x].val)

\* The transcript of S1 has been written twice and so has its metadata.
C9_Witness ==
  /\ priv["S1"].ver >= 2
  /\ world[TranscriptKey("S1")].ver >= 2

\* The strings of a value.
RECURSIVE Leaves(_)
Leaves(x) ==
  IF x.t = "str" THEN {x.v}
  ELSE UNION {Leaves(x.v[i][2]) : i \in DOMAIN x.v}

\* The private values of the inputs and the names they go under.
SecretStrings ==
  UNION {{t.gpa} \cup Leaves(t.detailedGrades) \cup Leaves(t.personalInfo) :
           t \in TranscriptInputs}
PrivateFieldNames == {"gpa", "transcript", "detailedGrades", "personalInfo"}

\* Bytes that show a private value or carry a private field.
RECURSIVE Mentions(_)
Mentions(x) ==
  IF x.t \in {"lit", "raw"} THEN x.v \in SecretStrings
  ELSE IF x.t = "text"
    THEN \E i \in DOMAIN x.v :
           x.v[i][1] \in PrivateFieldNames \/ Mentions(x.v[i][2])
    ELSE FALSE

StatusOf(val) == IF val = Nil THEN Nil ELSE Get(JSONparse(val), "status")

\* C11: the status of a degree goes ACTIVE -> REVOKED only and never back:
\* a record that is stored and is not ACTIVE (so every REVOKED one) is still
\* stored and still not ACTIVE after every step, whatever IssueDegree,
\* RevokeDegree, UpdateTranscript or GrantAccess transaction commits; and a
\* step that takes a record from ACTIVE to REVOKED is the commit of a
\* RevokeDegree transaction for that degreeId.
C11_StatusMonotonic ==
  [][\A k \in WorldKeys :
       world'[k] # world[k] =>
       /\ (world[k].val # Nil /\ StatusOf(world[k].val) # Str("ACTIVE"))
            => (world'[k].val # Nil /\ StatusOf(world'[k].val) # Str("ACTIVE"))
       /\ (/\ StatusOf(world[k].val) = Str("ACTIVE")
           /\ StatusOf(world'[k].val) = Str("REVOKED"))
            => \E t \in ordering \ ordering' :
                 txs[t].fn = "RevokeDegree" /\ txs[t].args[1] = k]_vars

\* D1 is REVOKED and an issueDegree call for D1 made after that came back
\* from endorsement with the chaincode's refusal.
C11_Witness ==
  /\ StatusOf(world["D1"].val) = Str("REVOKED")
  /\ \E c \in DOMAIN calls :
       /\ calls[c].op = "issueDegree"
       /\ calls[c].failedIn = "endorse"
       /\ Includes(calls[c].error, " already exists")

\* C12: revoking a degree that is already REVOKED fails with a
\* ValidationError "already revoked": every revokeDegree call the chaincode
\* refused with "is already revoked" leaves the service as a
\* ValidationError.
C12_AlreadyRevokedIsValidationError ==
  \A c \in DOMAIN calls :
    (/\ calls[c].op = "revokeDegree"
     /\ calls[c].failedIn = "endorse"
     /\ Includes(calls[c].error, " is already revoked"))
      => calls[c].outcome.kind = "ValidationError"

Authorised(id, x) == id.ou = "admin" \/ (id.ou = "student" /\ id.username = x)

\* C14: after a committed addPrivateTranscript for student S with gpa g and
\* grades G, QueryTranscript(S) by an authorised caller returns a record
\* with gpa = g and transcript = G until the next committed update for S:
\* the private record of S changes only when an UpdateTranscript
\* transaction for S commits, the record then stored has the gpa and the
\* grades the client sent, and a getTranscript call of an authorised caller
\* for a stored record is not refused and returns the gpa and the
\* transcript of the record stored when it is evaluated.
C14_QueryReturnsCommitted ==
  [][/\ \A x \in Students :
          priv'[x] # priv[x] =>
            \E t \in ordering \ ordering' :
              LET rec == JSONparse(priv'[x].val) IN
              /\ txs[t].fn = "UpdateTranscript"
              /\ txs[t].args[1] = x
              /\ Get(rec, "gpa") = BufferToString(Get(txs[t].transient, "gpa"))
              /\ Get(rec, "transcript") = JSONparse(Get(txs[t].transient, "transcript"))
              /\ \A c \in DOMAIN calls :
                   calls[c].txid = t =>
                     /\ Get(rec, "gpa") = Str(calls[c].private.gpa)
                     /\ Get(rec, "transcript") = calls[c].private.detailedGrades
     /\ (/\ Len(calls') = Len(calls) + 1
         /\ calls'[Len(calls')].op = "getTranscript") =>
          LET call == calls'[Len(calls')]
              x == call.args[1]
          IN /\ call.outcome.kind = "record" =>
                  /\ x \in Students
                  /\ priv[x].val # Nil
                  /\ Get(call.resultData, "gpa") = Get(JSONparse(priv[x].val), "gpa")
                  /\ Get(call.resultData, "transcript")
                       = Get(JSONparse(priv[x].val), "transcript")
             /\ (/\ x \in Students
                 /\ priv[x].val # Nil
                 /\ Authorised(IdentityOf(call.args[2]), x)
                 /\ call.failedIn = "evaluate")
                  => call.error \in TransportErrors]_vars

\* Student S1 read their transcript and got the gpa and the grades, one
\* under an integer-like key, of the committed update.
C14_Witness ==
  \E c \in DOMAIN calls :
    /\ calls[c].op = "getTranscript"
    /\ calls[c].args = <<"S1", "S1">>
    /\ calls[c].outcome.kind = "record"
    /\ Get(calls[c].resultData, "gpa") = Str("3.6")
    /\ Get(calls[c].resultData, "transcript") = Grades1

\* C15: QueryTranscript(S) returns transcript data only to an admin or to
\* student S; every other caller whose query reaches the chaincode gets a
\* ValidationError or a forbidden error and never the data.
C15_UnauthorisedRefused ==
  \A c \in DOMAIN calls :
    (/\ calls[c].op = "getTranscript"
     /\ calls[c].failedIn \notin {"validate", "connect"}
     /\ calls[c].error \notin TransportErrors
     /\ ~Authorised(IdentityOf(calls[c].args[2]), calls[c].args[1]))
      => /\ calls[c].outcome.kind \in {"ValidationError", "ForbiddenError"}
         /\ calls[c].resultData = Obj(<<>>)

\* A step that is a call of cleanupStaleConnections.
IsCleanup == maint = NoMaint /\ maint'.op = "cleanupStaleConnections"
\* The entries a step removed from the map.
Removed == {u \in Cached(userGateways) : userGateways'[u] = NoEntry}

\* C16: cleanupStaleConnections(maxAge) never removes an entry whose
\* lastUsed is within maxAge of the current time and removes every entry
\* whose lastUsed is older than maxAge.
C16_EvictsExactlyStale ==
  [][IsCleanup =>
       \A u \in Cached(userGateways) :
         IF now - userGateways[u].lastUsed > maint'.maxAge
           THEN userGateways'[u] = NoEntry
           ELSE userGateways'[u] = userGateways[u]]_vars

\* C17: the number cleanupStaleConnections returns is the number of
\* entries the call removed from the map and closed, a close() that throws
\* included.
C17_CountIsRemoved ==
  [][IsCleanup =>
       /\ maint'.result = Cardinality(Removed)
       /\ \A u \in Removed :
            /\ channels'[userGateways[u].gateway].gateway = "closed"
            /\ channels'[userGateways[u].client].client = "closed"]_vars

\* C18: disconnect() is idempotent: when a call returns, the default
\* connection is torn down and the map of user gateways is empty, every
\* gateway that was in it closed; a call made in that state changes
\* nothing.
C18_DisconnectIdempotent ==
  [][(maint = NoMaint /\ maint'.op = "disconnect" /\ ~maint'.threw) =>
       /\ manager' = [gateway |-> "null", client |-> "null", isConnected |-> FALSE]
       /\ Cached(userGateways') = {}
       /\ \A u \in Cached(userGateways) :
            /\ channels'[userGateways[u].gateway].gateway = "closed"
            /\ channels'[userGateways[u].client].client = "closed"
       /\ (~manager.isConnected /\ Cached(userGateways) = {})
            => UNCHANGED <<userGateways, channels, manager>>]_vars

\* C19: a request that asks for a contract of the default connection after
\* disconnect() fails with ConnectionError.
C19_DisconnectedIsConnectionError ==
  (maint.op \in Operations /\ ~manager.isConnected)
    => maint.outcome = "ConnectionError"

\* C20: cleanupStaleConnections never closes or removes the default
\* connection, whatever maxAge is and however long ago the default
\* connection was opened, and a request without a username gets a contract
\* of the default connection for as long as it is connected.
C20_DefaultNeverEvicted ==
  [][/\ IsCleanup => manager' = manager
     /\ (/\ maint = NoMaint
         /\ maint'.op \in Operations
         /\ manager.isConnected
         /\ manager.gateway = "open")
          => maint'.outcome = "contract"]_vars

\* cleanupStaleConnections(0) has returned at the last value of the clock,
\* it evicted an entry, and the default connection, opened at startup, is
\* as it was.
C20_Witness ==
  /\ maint.op = "cleanupStaleConnections"
  /\ maint.maxAge = 0
  /\ maint.result >= 1
  /\ now = MaxTime
  /\ \E i \in DOMAIN channels : channels[i].client = "closed"
  /\ manager = [gateway |-> "open", client |-> "open", isConnected |-> TRUE]

\* C21: every caller of getInstance, under any interleaving of concurrent
\* calls and after a connect() that failed, receives the instance only
\* with its default connection established.
C21_InstanceConnected ==
  \A p \in Callers : conn[p].pc = "instance" => conn[p].result = 1

\* C22: after a transport fault was detected on the cached connection of
\* an owner, a later connectWithUserIdentity for that owner returns a
\* newly established channel and not the one the fault was detected on.
C22_FaultedChannelReplaced ==
  [][\A p \in Callers :
       (conn[p].pc # "done" /\ conn'[p].pc = "done")
         => channels[conn'[p].result].client # "faulted"]_vars

\* The taxonomy kind of a failure message that carries a known signature;
\* "none" when it carries none.
KindBySignature(m) ==
  IF \/ Includes(m, "UNAVAILABLE")
     \/ Includes(m, "connect ECONNREFUSED")
     \/ Includes(m, "Failed to connect")
    THEN "ConnectionError"
  ELSE IF \/ Includes(m, "endorsement policy")
          \/ Includes(m, "failed to collect enough endorsements")
    THEN "EndorsementError"
  ELSE IF Includes(m, "MVCC_READ_CONFLICT")
    THEN "ConflictError"
  ELSE "none"

\* C23: every ledger or transport failure leaving the layer, from any
\* operation, the reads and grantAccess included, is classified into the
\* taxonomy kind of the signature its message carries (a transport
\* unreachable signature always leaves as ConnectionError).
C23_SignatureClassified ==
  \A c \in DOMAIN calls :
    (/\ calls[c].pc = "returned"
     /\ calls[c].failedIn \notin {"", "validate"}
     /\ KindBySignature(calls[c].error) # "none")
      => calls[c].outcome.kind = KindBySignature(calls[c].error)


\* C24: a failure that no taxonomy kind was found for leaves as a generic
\* Error whose message holds the whole of the original message: nothing in
\* the original is dropped or replaced.
C24_OriginalMessageKept ==
  \A c \in DOMAIN calls :
    (/\ calls[c].pc = "returned"
     /\ calls[c].failedIn \notin {"", "validate"}
     /\ calls[c].outcome.kind = "Error")
      => \A i \in DOMAIN calls[c].error :
            Includes(calls[c].outcome.msg, calls[c].error[i])

\* C25: a read whose target is absent fails with NotFoundError: a
\* verifyDegree call for a degreeId with nothing stored under it, and a
\* getTranscript call of an authorised caller for a student with no private
\* record, when the query reached the chaincode, leave as NotFoundError.
C25_AbsentIsNotFound ==
  [][\A c \in DOMAIN calls' :
       (/\ c \notin DOMAIN calls
        /\ calls'[c].failedIn \notin {"validate", "connect"}
        /\ calls'[c].error \notin TransportErrors
        /\ \/ /\ calls'[c].op = "verifyDegree"
              /\ world[calls'[c].args[1]].val = Nil
           \/ /\ calls'[c].op = "getTranscript"
              /\ Authorised(IdentityOf(calls'[c].args[2]), calls'[c].args[1])
              /\ getPrivateData([priv |-> priv], calls'[c].args[1]) = Nil)
         => calls'[c].outcome.kind = "NotFoundError"]_vars

\* C26: every successful submitting operation returns the transactionId of
\* the one proposal it built: a call that returned success holds, as its
\* transactionId, the id of the proposal its endorse, submit and commit
\* phases were for.
C26_ReturnsProposalId ==
  \A c \in DOMAIN calls :
    (/\ calls[c].pc = "returned"
     /\ calls[c].op \in Operations
     /\ calls[c].outcome.kind = "success")
      => /\ calls[c].txid \in DOMAIN txs
         /\ calls[c].outcome.transactionId = calls[c].txid

\* The read operations: one evaluate each.
Evaluates == {"verifyDegree", "getTranscript"}

C28_GetOrCreate ==
  [][\A p \in Callers :
       conn'[p] # conn[p] =>
         LET u == conn'[p].username
             from == conn[p].pc
             to == conn'[p].pc
         IN
         \* a hit
         /\ (from = "idle" /\ userGateways[u] # NoEntry)
              => /\ to = "done"
                 /\ conn'[p].result = userGateways[u].gateway
                 /\ channels' = channels
                 /\ userGateways' = [userGateways EXCEPT ![u].lastUsed = now]
         \* a miss: one channel, made by the one step before the gateway
         \* is connected on it
         /\ (from = "idle" /\ userGateways[u] = NoEntry)
              => to = "getIdentity" /\ channels' = channels /\ userGateways' = userGateways
         /\ Len(channels') # Len(channels)
              => /\ from = "loadTls" /\ to = "connecting"
                 /\ channels' = Append(channels, createGrpcClient(u))
                 /\ conn'[p].chan = Len(channels')
         /\ (from = "connecting" /\ to = "done")
              => /\ conn'[p].result = conn[p].chan
                 /\ userGateways' = [userGateways EXCEPT ![u] =
                       [gateway |-> conn[p].chan, client |-> conn[p].chan,
                        lastUsed |-> now]]
                 /\ channels'[conn[p].chan].gateway = "open"
         \* the map changes with a hit or with a finished creation only
         /\ userGateways' # userGateways => to = "done"
         /\ to = "failed" => userGateways' = userGateways /\ channels' = channels]_vars
\* A call found the entry another call had made earlier, after the clock
\* had moved on, and a call for a username with no wallet identity failed.
C28_Witness ==
  /\ now > 0
  /\ \E p \in Callers :
       /\ conn[p].pc = "done"
       /\ conn[p].chan = 0
       /\ userGateways[conn[p].username].gateway = conn[p].result
       /\ userGateways[conn[p].username].lastUsed = now
  /\ \E p \in Callers :
       /\ conn[p].pc = "failed"
       /\ conn[p].username \notin WalletUsers
       /\ userGateways[conn[p].username] = NoEntry

\* The chaincode functions that start with _requireAdmin.
AdminFunctions == {"IssueDegree", "RevokeDegree", "UpdateTranscript"}

\* C29: IssueDegree, RevokeDegree and UpdateTranscript change the world
\* state or the private collection only for a caller whose ou is admin: a
\* block that changes either for one of them holds a transaction signed by
\* an admin, and the endorsement of one signed by any other certificate, or
\* by one with no ou, throws (the chaincode's error is the access-denied
\* one) and leaves the proposal with no writes.
C29_OnlyAdminWrites ==
  [][/\ \A t \in ordering \ ordering' :
          (txs[t].fn \in AdminFunctions /\ (world' # world \/ priv' # priv))
            => txs[t].id.ou = "admin"
     /\ \A c \in DOMAIN calls :
          LET t == calls[c].txid IN
          (/\ Len(calls') = Len(calls)
           /\ calls[c].pc = "endorsing"
           /\ calls'[c].pc # "endorsing"
           /\ txs[t].fn \in AdminFunctions
           /\ txs[t].id.ou # "admin")
            => /\ calls'[c].pc = "returned"
               /\ calls'[c].failedIn = "endorse"
               /\ calls'[c].error \in
                     TransportErrors \cup {PolicyUnmet}
                       \cup {EndorseError(AccessDenied([id |-> txs[t].id], "admin"), d) :
                               d \in BOOLEAN}
               /\ txs'[t].writes = <<>>
               /\ txs'[t].pwrites = <<>>
               /\ world' = world
               /\ priv' = priv]_vars
\* On a ledger an admin has issued D1 on, an issueDegree signed by a
\* certificate with no ou was refused by the chaincode.
C29_Witness ==
  /\ world["D1"].val # Nil
  /\ \E c \in DOMAIN calls :
       /\ calls[c].op = "issueDegree"
       /\ calls[c].pc = "returned"
       /\ calls[c].failedIn = "endorse"
       /\ calls[c].error = EndorseError(AccessDenied([id |-> NoIdentity], "admin"), TRUE)

ConnectionClass == {e \in DbErrors : e.code = "ECONNRESET"
                                     \/ e.message[1] \in {"Connection terminated", "timeout"}}

\* C31: db.query ends by returning a result or by throwing, never with no
\* value; it sends at most two queries to the pool; the second is sent only
\* after a connection error and on a pool made after that error; any other
\* error is thrown at once, with no retry.
C31_QueryTerminates ==
  [][\A q \in 1..MaxQueries :
       LET from == queries[q] to == queries'[q] IN
       /\ to.pc = "returned" => to.res = "rows"
       /\ to.pc = "querying" => to.retries \in {1, 2}
       /\ (from.pc # "querying" /\ to.pc = "querying")
            => \/ /\ from.pc = "idle"
                  /\ to.retries = 2
                  /\ to.currentPool = pool'.current
                  /\ to.currentPool # 0
               \/ /\ from.pc = "waiting"
                  /\ to.retries = 1
                  /\ from.error \in ConnectionClass
                  /\ to.currentPool = from.currentPool
       /\ (from.pc = "querying" /\ to.pc = "waiting")
            => /\ from.retries = 2
               /\ to.error \in ConnectionClass
               /\ to.currentPool = pool.made + 1
               /\ pool'.current = to.currentPool
       /\ (from.pc = "querying" /\ to.pc = "threw")
            => \/ /\ to.error \notin ConnectionClass
                  /\ to.retries = from.retries
                  /\ pool' = pool
               \/ /\ to.error \in ConnectionClass
                  /\ from.retries = 1]_vars
\* A query that met a connection error, was sent again on the new pool
\* and returned rows, while another threw after its second attempt.
C31_Witness ==
  \E q1, q2 \in 1..MaxQueries :
    /\ queries[q1].pc = "returned"
    /\ queries[q1].retries = 1
    /\ queries[q1].res = "rows"
    /\ queries[q1].currentPool > 1
    /\ queries[q2].pc = "threw"
    /\ queries[q2].retries = 0

\* C32: a user is enrolled at most once: enrollUser succeeds only for a
\* registered, not yet enrolled user presenting the stored secret, and
\* once an identity is stored for a user no enrollUser replaces it: every
\* other call for that user, later or concurrent, fails with
\* "User already enrolled".
C32_EnrolledOnce ==
  [][/\ \A u \in Users : wallet[u] # 0 => wallet'[u] = wallet[u]
     /\ \A e \in 1..MaxEnrollers :
          LET u == enrolls[e].username IN
          /\ (enrolls[e].pc # "done" /\ enrolls'[e].pc = "done")
               => /\ users[u].exists
                  /\ ~users[u].enrolled
                  /\ users[u].enrollmentSecret = enrolls[e].secret
          /\ (/\ enrolls[e].pc = "getUser"
              /\ enrolls'[e].pc # "getUser"
              /\ u \in Users
              /\ users[u].exists
              /\ users[u].enrollmentSecret = enrolls[e].secret
              /\ wallet[u] # 0)
               => /\ enrolls'[e].pc = "failed"
                  /\ enrolls'[e].error = <<"User already enrolled">>]_vars

\* C33: every channel ever created is referenced by the cache or has been
\* closed: no gRPC client or gateway is open and unreachable.  (A channel
\* still held by the connectWithUserIdentity call that is creating it is
\* not counted; the default slot is `manager`, which is no channel here.)
C33_NoOrphanChannel ==
  \A i \in DOMAIN channels :
    (channels[i].client = "open" \/ channels[i].gateway = "open")
      => \/ \E u \in Users : /\ userGateways[u] # NoEntry
                             /\ i \in {userGateways[u].client, userGateways[u].gateway}
         \/ \E p \in Callers : conn[p].pc = "connecting" /\ conn[p].chan = i

\* The stored value is a Degree record.
IsDegreeRecord(val) == val # Nil /\ Get(JSONparse(val), "docType") = Str("degree")
IssueFields == <<"degreeId", "studentId", "degreeType", "studentName",
                 "university", "major", "classification", "issueDate">>

\* C34: a world-state key that holds a Degree record keeps holding a Degree
\* record with the same degreeId, studentId and issue fields after every
\* step: no UpdateTranscript or GrantAccess transaction overwrites it.
C34_DegreeKept ==
  [][\A k \in WorldKeys :
       IsDegreeRecord(world[k].val)
         => /\ IsDegreeRecord(world'[k].val)
            /\ \A f \in DOMAIN IssueFields :
                 Get(JSONparse(world'[k].val), IssueFields[f])
                   = Get(JSONparse(world[k].val), IssueFields[f])]_vars

\* C35: verifyDegree reports verified = true only if the ledger holds under
\* the degreeId a record of docType degree whose status is ACTIVE; never for
\* a REVOKED degree nor for a key that holds a record of another type.
C35_VerifiedIsActiveDegree ==
  [][\A c \in DOMAIN calls' :
       (/\ c \notin DOMAIN calls
        /\ calls'[c].op = "verifyDegree"
        /\ calls'[c].outcome.kind = "record"
        /\ Get(calls'[c].resultData, "verified") = Str("true"))
         => /\ IsDegreeRecord(world[calls'[c].args[1]].val)
            /\ StatusOf(world[calls'[c].args[1]].val) = Str("ACTIVE")]_vars

\* C36: after a user's identity has been removed from the wallet or
\* replaced in it, no later request for that username is served from the
\* connection cached before the change: a connectWithUserIdentity call that
\* starts and returns a cached gateway returns one made with the identity
\* the wallet now holds for the username.
C36_NoStaleCredentials ==
  [][\A p \in Callers :
       (conn[p].pc = "idle" /\ conn'[p].pc = "done")
         => LET u == conn'[p].username IN
            /\ wallet[u] # 0
            /\ channels[conn'[p].result].identity = [user |-> u, cert |-> wallet[u]]]_vars

\* The cache holds no entry whose gateway or client is open.
NoOpenEntry ==
  \A u \in Users :
    userGateways[u] # NoEntry
      => /\ channels[userGateways[u].gateway].gateway # "open"
         /\ channels[userGateways[u].client].client # "open"

\* C37: once disconnect() has completed (isConnected is false and the cache
\* holds no open connection), the manager holds no open connection in any
\* later state unless connect() is called again: no call in flight during
\* disconnect(), and none that starts after it, leaves a new open entry.
C37_StaysDisconnected ==
  [][(~manager.isConnected /\ NoOpenEntry /\ ~manager'.isConnected)
       => NoOpenEntry']_vars

\* C38: the gateway returned by connectWithUserIdentity for a username (the
\* one getContractWithUserIdentity takes its contract from) is a user
\* gateway, never the default one, and was connected with the identity the
\* wallet holds for that same username, whatever requests for other users
\* run at the same time; and every gateway in the cache was connected with
\* the identity of the username it is cached under.
C38_BoundToOwnIdentity ==
  /\ \A p \in Callers :
       conn[p].pc = "done"
         => /\ conn[p].result \in DOMAIN channels
            /\ channels[conn[p].result].identity.user = conn[p].username
  /\ \A u \in Users :
       userGateways[u] # NoEntry
         => channels[userGateways[u].gateway].identity.user = u
\* Two requests for different users ran interleaved: one has its gateway,
\* made on a client created after the client of the other, which is still
\* waiting for its gateway.
C38_Witness ==
  \E p, q \in Callers :
    /\ conn[p].pc = "done"
    /\ conn[q].pc = "connecting"
    /\ conn[p].username # conn[q].username
    /\ conn[p].chan > conn[q].chan
    /\ conn[p].result = conn[p].chan
=============================================================================
